---- MODULE Spec2Model ----
(***************************************************************************)
(* Model of 190proof (src/index.ts): the streamed OpenAI response parser   *)
(* (callOpenAIStream, parseStreamedResponse) and the call-with-retries     *)
(* controllers of the four provider paths.                                 *)
(*                                                                         *)
(* Text is a sequence of one-element strings.  The transport delivers      *)
(* bytes; a byte of an ASCII character is written as that character, and   *)
(* the one two-byte character of the model is the byte pair "C3","A9".     *)
(*                                                                         *)
(* A JSON record of the stream is written with five structural tokens:     *)
(*    {  <key>  "  ...payload characters...  "  }                          *)
(* where <key> names the one field the record carries (for example the key *)
(* "content" stands for  "choices":[{"delta":{"content":  and the closing  *)
(* brace for the closing brackets).  A prefix of such a text is never a    *)
(* complete JSON text, as with real JSON objects.                          *)
(***************************************************************************)
EXTENDS Integers, Sequences, FiniteSets, TLC

\* ---------------------------------------------------------------- bounds
MaxRecords == 2
MaxRetries == 2
MaxMessages == 3
MaxFiles == 3

\* ------------------------------------------------------------- constants
\* null / undefined / an absent optional field: the empty option
Null == <<>>
Some(v) == <<v>>
NL == "\n"
Q == "\""
Marker == <<"d", "a", "t", "a", ":", " ">>
Sentinel == <<"[", "D", "O", "N", "E", "]">>
LeadByte == "C3"
ContinuationByte == "A9"
EAcute == "e'"
ReplacementChar == "FFFD"

\* ------------------------------------------------------- text primitives
IsWhitespace(c) == c \in {" ", NL}

RECURSIVE TrimStart(_)
TrimStart(s) ==
  IF s # <<>> /\ IsWhitespace(Head(s)) THEN TrimStart(Tail(s)) ELSE s

RECURSIVE TrimEnd(_)
TrimEnd(s) ==
  IF s # <<>> /\ IsWhitespace(s[Len(s)])
    THEN TrimEnd(SubSeq(s, 1, Len(s) - 1))
    ELSE s

\* String.prototype.trim
Trim(s) == TrimEnd(TrimStart(s))

\* String.prototype.includes
Includes(s, needle) ==
  \E p \in 1..(Len(s) - Len(needle) + 1) :
    SubSeq(s, p, p + Len(needle) - 1) = needle

\* new TextDecoder().decode(value): each read is decoded on its own, so a
\* lead byte without its continuation byte in the same read, and a
\* continuation byte without its lead byte, become U+FFFD.
RECURSIVE TextDecoderDecode(_)
TextDecoderDecode(value) ==
  IF value = <<>> THEN <<>>
  ELSE IF Head(value) = LeadByte
    THEN IF Len(value) >= 2 /\ value[2] = ContinuationByte
           THEN <<EAcute>> \o TextDecoderDecode(SubSeq(value, 3, Len(value)))
           ELSE <<ReplacementChar>> \o TextDecoderDecode(Tail(value))
  ELSE IF Head(value) = ContinuationByte
    THEN <<ReplacementChar>> \o TextDecoderDecode(Tail(value))
  ELSE <<Head(value)>> \o TextDecoderDecode(Tail(value))

\* /^data: /gm matches at p: the marker text at the start of the input or
\* right after a line terminator.
MarkerMatchAt(s, p) ==
  /\ p + Len(Marker) - 1 <= Len(s)
  /\ (p = 1 \/ s[p - 1] = NL)
  /\ SubSeq(s, p, p + Len(Marker) - 1) = Marker

RECURSIVE SplitFrom(_, _, _)
SplitFrom(s, pieceStart, p) ==
  IF p > Len(s) THEN <<SubSeq(s, pieceStart, Len(s))>>
  ELSE IF MarkerMatchAt(s, p)
    THEN <<SubSeq(s, pieceStart, p - 1)>>
           \o SplitFrom(s, p + Len(Marker), p + Len(Marker))
    ELSE SplitFrom(s, pieceStart, p + 1)

\* chunk.split(/^data: /gm)
SplitOnMarker(chunk) == SplitFrom(chunk, 1, 1)

\* ------------------------------------------------------------ JSON texts
\* The key of a record names the field it carries:
\*   content   choices[0].delta.content = payload
\*   tool      choices[0].delta.tool_calls[0] without index
\*   tool0     choices[0].delta.tool_calls[0] with index 0
\*   tool1     choices[0].delta.tool_calls[0] with index 1
\*   role      choices[0].delta without content and tool_calls
\*   error     no choices, error: {code: payload}
\*   id        no choices, no error
\* The payload of a tool record is the function name fragment, a comma, and
\* the arguments fragment (either may be empty).
Keys == {"content", "tool", "tool0", "tool1", "role", "error", "id"}

Comma == ","

RECURSIVE BeforeComma(_)
BeforeComma(s) ==
  IF s = <<>> \/ Head(s) = Comma THEN <<>> ELSE <<Head(s)>> \o BeforeComma(Tail(s))

RECURSIVE AfterComma(_)
AfterComma(s) ==
  IF s = <<>> THEN <<>> ELSE IF Head(s) = Comma THEN Tail(s) ELSE AfterComma(Tail(s))

NoToolCalls == <<>>
ToolCall(index, payload) ==
  <<[index |-> index,
     function |-> [name |-> BeforeComma(payload), arguments |-> AfterComma(payload)]]>>

Choices(content, tool_calls) ==
  <<[delta |-> [content |-> content, tool_calls |-> tool_calls]]>>

EmptyObject == [choices |-> <<>>, error |-> Null]

JsonOfRecord(key, payload) ==
  CASE key = "content" -> [choices |-> Choices(payload, NoToolCalls), error |-> Null]
    [] key = "tool" -> [choices |-> Choices(<<>>, ToolCall(Null, payload)), error |-> Null]
    [] key = "tool0" ->
         [choices |-> Choices(<<>>, ToolCall(Some(0), payload)), error |-> Null]
    [] key = "tool1" ->
         [choices |-> Choices(<<>>, ToolCall(Some(1), payload)), error |-> Null]
    [] key = "role" -> [choices |-> Choices(<<>>, NoToolCalls), error |-> Null]
    [] key = "error" -> [choices |-> <<>>, error |-> Some([code |-> payload])]
    [] OTHER -> EmptyObject

IsRecordText(t) ==
  /\ Len(t) >= 5
  /\ t[1] = "{"
  /\ t[2] \in Keys
  /\ t[3] = Q
  /\ t[Len(t) - 1] = Q
  /\ t[Len(t)] = "}"
  /\ \A k \in 4..(Len(t) - 2) : t[k] \notin {Q, NL}

\* JSON.parse: the parsed value of a complete JSON text, a SyntaxError for
\* anything else (a prefix of a record, a record followed by the beginning
\* of the next marker, white space only, ...).
JSONParse(text) ==
  LET t == Trim(text) IN
    IF IsRecordText(t)
      THEN [ok |-> TRUE, json |-> JsonOfRecord(t[2], SubSeq(t, 4, Len(t) - 2))]
    ELSE IF t = <<"{", "}">> THEN [ok |-> TRUE, json |-> EmptyObject]
    ELSE [ok |-> FALSE, json |-> EmptyObject]

\* ------------------------------------------------------------- outcomes
\* the value undefined, which is neither null nor a value
Undefined == <<"undefined", "undefined">>

NoMessage == [role |-> "none", content |-> Null, function_call |-> Null]

\* How a call ended: a returned message, or a thrown Error with its message
\* text (`error`), its data field, the attempt count its text embeds and its
\* response field.
Pending ==
  [kind |-> "pending", message |-> NoMessage, error |-> "", data |-> Null,
   attempts |-> Null, response |-> Null]

Returned(message) ==
  [kind |-> "returned", message |-> message, error |-> "", data |-> Null,
   attempts |-> Null, response |-> Null]

Threw(error, data) ==
  [kind |-> "threw", message |-> NoMessage, error |-> error, data |-> data,
   attempts |-> Null, response |-> Null]

\* ------------------------------------------------ parseStreamedResponse
parseStreamedResponseAcceptingAnyName(text, name, args, allowedFunctionNames) ==
  LET hasCall == name # <<>> /\ args # <<>>
      parsedArgs == JSONParse(args)
      functionCall ==
        IF hasCall
          THEN Some([name |-> name, arguments |-> parsedArgs.json])
          ELSE Null
  IN
    IF hasCall /\ ~parsedArgs.ok
      THEN Threw("SyntaxError", Null)
    ELSE IF text = <<>> /\ functionCall = Null
      THEN Threw("Stream error: received message without content or function_call",
                 Null)
    ELSE Returned([role |-> "assistant",
                   content |-> IF text # <<>> THEN Some(text) ELSE Null,
                   function_call |-> functionCall])

parseStreamedResponse(text, name, args, allowedFunctionNames) ==
  LET hasCall == name # <<>> /\ args # <<>>
      parsedArgs == JSONParse(args)
      functionCall ==
        IF hasCall
          THEN Some([name |-> name, arguments |-> parsedArgs.json])
          ELSE Null
  IN
    IF /\ hasCall
       /\ allowedFunctionNames # Null
       /\ name \notin allowedFunctionNames[1]
      THEN Threw("Stream error: received function call with unknown name", Null)
    ELSE IF hasCall /\ ~parsedArgs.ok
      THEN Threw("SyntaxError", Null)
    ELSE IF text = <<>> /\ functionCall = Null
      THEN Threw("Stream error: received message without content or function_call",
                 Null)
    ELSE Returned([role |-> "assistant",
                   content |-> IF text # <<>> THEN Some(text) ELSE Null,
                   function_call |-> functionCall])

\* callOpenAiWithRetries: const errorCode = error.data?.code
ErrorCodeOf(error) == IF error.data = Null THEN <<>> ELSE error.data[1].code

\* ------------------------------------------------------ callOpenAIStream
\* The local state of one stream attempt; `parsed` is a history of the
\* records JSON.parse accepted, in the order they were processed.
StreamStart ==
  [partialChunk |-> <<>>, paragraph |-> <<>>, functionCallName |-> <<>>,
   functionCallArgs |-> <<>>, parsed |-> <<>>, outcome |-> Pending]

PrependPartialChunkDropped(partialChunk, chunk) == chunk

PrependPartialChunk(partialChunk, chunk) ==
  IF partialChunk # <<>> THEN partialChunk \o chunk ELSE chunk

IsDoneRecord(jsonString) == Includes(jsonString, Sentinel)

AccumulateToolCall(st, delta) ==
  IF delta.tool_calls = <<>> THEN st
  ELSE
    LET dToolCall == delta.tool_calls[1]
        toolCallIndex == IF dToolCall.index = Null THEN 0 ELSE dToolCall.index[1]
        dFn == dToolCall.function
    IN IF toolCallIndex = 0
         THEN [st EXCEPT !.functionCallName = @ \o dFn.name,
                         !.functionCallArgs = @ \o dFn.arguments]
         ELSE st

AccumulateText(st, delta) == [st EXCEPT !.paragraph = @ \o delta.content]

ProcessRecordIgnoringError(st, json) ==
  IF json.choices = <<>>
    THEN st
    ELSE AccumulateText(AccumulateToolCall(st, json.choices[1].delta),
                        json.choices[1].delta)

\* lines 383-402: a record without choices throws if it has an error field,
\* and is otherwise skipped (`continue`)
WithoutChoicesAlwaysFails(st, json) ==
  IF json.error # Null
    THEN [st EXCEPT !.outcome = Threw("Stream error: OpenAI error", json.error)]
    ELSE [st EXCEPT !.outcome = Threw("Stream error: no choices in JSON", Null)]

WithoutChoices(st, json) ==
  IF json.error # Null
    THEN [st EXCEPT !.outcome = Threw("Stream error: OpenAI error", json.error)]
    ELSE st

ProcessRecord(st, json) ==
  IF json.choices = <<>>
    THEN WithoutChoices(st, json)
    ELSE AccumulateText(AccumulateToolCall(st, json.choices[1].delta),
                        json.choices[1].delta)

\* the body of `for (let jsonString of jsonStrings)`
ProcessJsonString(st, jsonString, functionNames) ==
  IF jsonString = <<>> THEN st
  ELSE IF IsDoneRecord(jsonString)
    THEN [st EXCEPT !.outcome =
            parseStreamedResponse(st.paragraph, st.functionCallName,
                                  st.functionCallArgs, functionNames)]
  ELSE
    LET r == JSONParse(Trim(jsonString)) IN
      IF ~r.ok
        THEN [st EXCEPT !.partialChunk = jsonString]
        ELSE ProcessRecord([st EXCEPT !.parsed = Append(@, r.json)], r.json)

RECURSIVE ProcessJsonStrings(_, _, _)
ProcessJsonStrings(st, jsonStrings, functionNames) ==
  IF jsonStrings = <<>> \/ st.outcome.kind # "pending" THEN st
  ELSE ProcessJsonStrings(ProcessJsonString(st, Head(jsonStrings), functionNames),
                          Tail(jsonStrings), functionNames)

\* one iteration of `while (true)` after a read that delivered `value`
ProcessChunk(st, value, functionNames) ==
  LET chunk == PrependPartialChunk(st.partialChunk, TextDecoderDecode(value))
  IN ProcessJsonStrings([st EXCEPT !.partialChunk = <<>>],
                        SplitOnMarker(chunk), functionNames)

\* `if (done) throw new Error("Stream error: ended prematurely")`
EndedPrematurely(st) ==
  [st EXCEPT !.outcome = Threw("Stream error: ended prematurely", Null)]

\* the read loop when the first read delivers all the bytes of the body and
\* the next one reports done
RunStream(bytes, names) ==
  LET st == ProcessChunk(StreamStart, bytes, names)
  IN IF st.outcome.kind = "pending" THEN EndedPrematurely(st) ELSE st

\* ------------------------------------------------------ the provider stream
Rec(key, payload) == [key |-> key, payload |-> payload]

ContentHel == Rec("content", <<"H", "e", "l">>)
ContentLo == Rec("content", <<"l", "o">>)
ContentDone == Rec("content", Sentinel)
ContentEAcute == Rec("content", <<LeadByte, ContinuationByte>>)
ToolOpenF == Rec("tool", <<"f", Comma, "{">>)
Tool0Close == Rec("tool0", <<Comma, "}">>)
Tool1G == Rec("tool1", <<"g", Comma, "1">>)
ToolG == Rec("tool", <<"g", Comma, "{", "}">>)
RoleOnly == Rec("role", <<>>)
ErrorContentFilter == Rec("error", <<"content_filter">>)
NoChoices == Rec("id", <<>>)

\* the records a provider may stream
StreamRecords ==
  {ContentHel, ContentLo, ContentDone, ToolOpenF, Tool0Close, Tool1G,
   ErrorContentFilter}

\* the bytes of one event: data: <json>\n
RecordBytes(r) == Marker \o <<"{", r.key, Q>> \o r.payload \o <<Q, "}", NL>>

DoneBytes == Marker \o Sentinel \o <<NL>>

RECURSIVE Flatten(_)
Flatten(recs) ==
  IF recs = <<>> THEN <<>> ELSE RecordBytes(Head(recs)) \o Flatten(Tail(recs))

\* a complete response body: the records, then the terminal sentinel
BodyOf(recs) == Flatten(recs) \o DoneBytes

RecordSeqs(recordSet) == UNION {[1..n -> recordSet] : n \in 0..MaxRecords}

\* the tool schema of the request: none, or one function named f
FunctionNameSets == {Null, Some({<<"f">>})}

\* ------------------------------------------------------------------ state
VARIABLES
  records,           \* the records the provider streams (input)
  body,              \* response.body: the bytes of the stream (input)
  functionNames,     \* callOpenAIStream: functionNames
  pos,               \* number of bytes reader.read() has delivered
  partialChunk,
  paragraph,
  functionCallName,
  functionCallArgs,
  parsed,            \* history: the records JSON.parse accepted, in order
  carried,           \* history: some read was completed by a held fragment
  outcome,           \* pending, or how the attempt ended
  abortTimeouts,     \* the number of timers of startAbortTimeout still pending
  aborted            \* controller.signal.aborted

timerVars == <<abortTimeouts, aborted>>

streamVars ==
  <<records, body, functionNames, pos, partialChunk, paragraph,
    functionCallName, functionCallArgs, parsed, carried, outcome, timerVars>>

VARIABLES
  aiPayload,         \* callWithRetries: the caller's GenericPayload (input)
  retriesArg,        \* callWithRetries: the retries argument, Null if omitted
  aiConfig,          \* the caller's config object, Null if omitted
  pc,                \* where the invocation is
  i,                 \* the loop index of the retry loop
  bound,             \* the retries / attempts parameter of the retry loop
  payload,           \* the provider payload carried across attempts
  calls,             \* history: one entry per provider call
  lastOutcome,       \* history: how the latest provider call ended
  lastResponse,      \* callAnthropicWithRetries / callGroqWithRetries
  result,            \* pending, or how callWithRetries ended
  rateLimited,       \* history: an Anthropic attempt failed with rate_limit_error
  lastRaw,           \* history: the raw provider response of the latest failed
                     \* Anthropic or Groq attempt that received one
  slept,             \* history: the delays of the timeout() calls, in ms
  givenPayload,      \* history: the GenericPayload as the caller built it
  givenConfig,       \* history: the config as the caller built it
  invocation         \* which invocation of callWithRetries by this caller

histVars == <<rateLimited, lastRaw, slept>>

callerVars == <<givenPayload, givenConfig, invocation>>

callVars ==
  <<aiPayload, retriesArg, aiConfig, pc, i, bound, payload, calls, lastOutcome,
    lastResponse, result, histVars, callerVars>>

VARIABLES
  givenMessages,     \* history: the array as the caller passed it
  inputMessages,     \* jigAnthropicMessages: the caller's array `messages`
  anthropicMessages, \* the array jigAnthropicMessages returned
  jigPc              \* start, then the variant that has run

jigVars == <<givenMessages, inputMessages, anthropicMessages, jigPc>>

vars == <<streamVars, callVars, jigVars>>

StreamState ==
  [partialChunk |-> partialChunk, paragraph |-> paragraph,
   functionCallName |-> functionCallName, functionCallArgs |-> functionCallArgs,
   parsed |-> parsed, outcome |-> outcome]

SetStreamState(st) ==
  /\ partialChunk' = st.partialChunk
  /\ paragraph' = st.paragraph
  /\ functionCallName' = st.functionCallName
  /\ functionCallArgs' = st.functionCallArgs
  /\ parsed' = st.parsed
  /\ outcome' = st.outcome

StreamInit(recordSet) ==
  /\ records \in RecordSeqs(recordSet)
  /\ carried = FALSE
  /\ body = BodyOf(records)
  /\ functionNames = Some({<<"f">>})
  /\ pos = 0
  /\ partialChunk = StreamStart.partialChunk
  /\ paragraph = StreamStart.paragraph
  /\ functionCallName = StreamStart.functionCallName
  /\ functionCallArgs = StreamStart.functionCallArgs
  /\ parsed = StreamStart.parsed
  /\ outcome = StreamStart.outcome
  /\ abortTimeouts = 0
  /\ aborted = FALSE

\* lines 308-319: startAbortTimeout sets a new timer; its clearTimeout is given
\* the outer `abortTimeout`, which is never assigned (the loop declares its
\* own constant of that name), and so clears nothing
StartAbortTimeout(pending) == pending + 1

\* line 326: clearTimeout(abortTimeout) after the read has resolved
ClearTimeoutSkipped(pending) == pending

ClearTimeout(pending) == pending - 1

\* reader.read() resolves with the next n bytes of the stream, wherever the
\* transport cuts them
ReadChunk ==
  /\ outcome.kind = "pending"
  /\ \E n \in 1..(Len(body) - pos) :
       /\ pos' = pos + n
       /\ carried' = (carried \/ Trim(partialChunk) # <<>>)
       /\ SetStreamState(ProcessChunk(StreamState, SubSeq(body, pos + 1, pos + n),
                                      functionNames))
  /\ abortTimeouts' = ClearTimeout(StartAbortTimeout(abortTimeouts))
  /\ UNCHANGED <<records, body, functionNames, aborted>>
  /\ UNCHANGED <<callVars, jigVars>>

\* reader.read() resolves with done = true: the body has ended, after the
\* last byte or earlier when the connection was closed before the provider
\* had sent everything
ReadDone ==
  /\ outcome.kind = "pending"
  /\ SetStreamState(EndedPrematurely(StreamState))
  /\ abortTimeouts' = ClearTimeout(StartAbortTimeout(abortTimeouts))
  /\ UNCHANGED <<records, body, functionNames, pos, carried, aborted>>
  /\ UNCHANGED <<callVars, jigVars>>

\* reader.read() rejects (network failure): the await throws, and line 326 is
\* not reached
ReadFails ==
  /\ outcome.kind = "pending"
  /\ outcome' = Threw("TypeError: terminated", Null)
  /\ abortTimeouts' = StartAbortTimeout(abortTimeouts)
  /\ UNCHANGED <<records, body, functionNames, pos, partialChunk, paragraph,
                 functionCallName, functionCallArgs, parsed, carried, aborted>>
  /\ UNCHANGED <<callVars, jigVars>>

\* reader.read() does not resolve within chunkTimeoutMs: the timer of this
\* read fires (lines 311-318: it logs the paragraph and calls
\* controller.abort()), and the read rejects with the AbortError of the
\* aborted fetch
ReadTimesOut ==
  /\ outcome.kind = "pending"
  /\ abortTimeouts' = StartAbortTimeout(abortTimeouts) - 1
  /\ aborted' = TRUE
  /\ outcome' = Threw("AbortError: This operation was aborted", Null)
  /\ UNCHANGED <<records, body, functionNames, pos, partialChunk, paragraph,
                 functionCallName, functionCallArgs, parsed, carried>>
  /\ UNCHANGED <<callVars, jigVars>>

\* a timer that is still pending when the attempt has ended fires
AbortTimeoutFires ==
  /\ outcome.kind # "pending"
  /\ abortTimeouts > 0
  /\ abortTimeouts' = abortTimeouts - 1
  /\ aborted' = TRUE
  /\ UNCHANGED <<records, body, functionNames, pos, partialChunk, paragraph,
                 functionCallName, functionCallArgs, parsed, carried, outcome>>
  /\ UNCHANGED <<callVars, jigVars>>

\* ---- parseStreamedResponse on its own
\* what the stream may have accumulated when the sentinel arrives
Paragraphs == {<<>>, <<"H">>, <<"H", "e", "l">>}
FunctionCallNames == {<<>>, <<"f">>, <<"g">>}
FunctionCallArguments ==
  {<<>>, <<"{", "}">>, <<"{">>, <<"{", "}", "}">>,
   <<"{", "content", Q, "H", Q, "}">>}
AllowedFunctionNames == {Null, Some({}), Some({<<"f">>}), Some({<<"f">>, <<"g">>})}

ParseInit ==
  /\ records = <<>>
  /\ body = <<>>
  /\ pos = 0
  /\ partialChunk = <<>>
  /\ parsed = <<>>
  /\ carried = FALSE
  /\ paragraph \in Paragraphs
  /\ functionCallName \in FunctionCallNames
  /\ functionCallArgs \in FunctionCallArguments
  /\ functionNames \in AllowedFunctionNames
  /\ outcome = Pending
  /\ abortTimeouts = 0
  /\ aborted = FALSE

\* lines 352-361: the sentinel has arrived
ParseAtSentinel ==
  /\ outcome.kind = "pending"
  /\ outcome' = parseStreamedResponse(paragraph, functionCallName, functionCallArgs,
                                      functionNames)
  /\ UNCHANGED <<records, body, functionNames, pos, partialChunk, paragraph,
                 functionCallName, functionCallArgs, parsed, carried, timerVars>>
  /\ UNCHANGED <<callVars, jigVars>>

\* ------------------------------------------------------- callWithRetries
GPT4O == "gpt-4o"
GPT4_0409 == "gpt-4-turbo-2024-04-09"
HAIKU == "claude-3-haiku-20240307"
SONNET == "claude-3-sonnet-20240229"
LLAMA_3_70B_8192 == "llama3-70b-8192"
GEMINI_15_PRO == "gemini-1.5-pro-latest"
BedrockModelId == "anthropic.claude-3-haiku-20240307-v1:0"

GPTModel == {GPT4O, GPT4_0409}
ClaudeModel == {HAIKU, SONNET}
GroqModel == {LLAMA_3_70B_8192}
GeminiModel == {GEMINI_15_PRO}

isAnthropicPayload(p) == p.model \in ClaudeModel
isOpenAiPayload(p) == p.model \in GPTModel
isGroqPayload(p) == p.model \in GroqModel
isGoogleAIPayload(p) == p.model \in GeminiModel

\* the default of the retries parameter of callWithRetries,
\* callOpenAiWithRetries, callAnthropicWithRetries and callGroqWithRetries
DefaultRetries == 5

\* temperatures are counted in tenths: 8 is 0.8
FallbackTemperature == 8

\* the Error callXWithRetries throws after its loop
ExhaustionError(error, n, response) ==
  [kind |-> "threw", message |-> NoMessage, error |-> error, data |-> Null,
   attempts |-> Some(n), response |-> response]

FailedOpenAI == "Failed to call OpenAI API after n attempts"
FailedAnthropic == "Failed to call Anthropic API after n attempts"
FailedGroq == "Failed to call Groq API after n attempts"

\* ---- messages
\* A file of a GenericMessage: mimeType, and a url or base64 data.
File(mimeType, url, data) == [mimeType |-> mimeType, url |-> url, data |-> data]

GenericMessage(role, content, files) ==
  [role |-> role, content |-> content, files |-> files]

\* file.mimeType?.startsWith("image"), over the mime types of the model
IsImageOrPdfMimeType(mimeType) ==
  mimeType \in {"image/png", "image/heic", "application/pdf"}

IsImageMimeType(mimeType) == mimeType \in {"image/png", "image/heic"}

\* the mime types prepareAnthropicPayload and prepareGoogleAIPayload accept
\* for inline data
SupportedImageTypes == {"image/png", "image/jpeg", "image/gif", "image/webp"}

\* A content block of a provider message: its type, its text (text blocks)
\* and its data (the image url or base64 source; the parts of a template
\* string are kept as a tuple).
TextBlock(text) == [type |-> "text", text |-> text, data |-> <<>>]
ImageUrlBlock(url) == [type |-> "image_url", text |-> "", data |-> url]
ImageBlock(media_type, data) ==
  [type |-> "image", text |-> "", data |-> <<media_type, data>>]

\* message.content is `string | ContentBlock[]`
StringContent(text) == [isArray |-> FALSE, text |-> text, blocks |-> <<>>]
ArrayContent(blocks) == [isArray |-> TRUE, text |-> "", blocks |-> blocks]

ProviderMessage(role, content) == [role |-> role, content |-> content]

RECURSIVE SelectBlocks(_, _)
SelectBlocks(blocks, types) ==
  IF blocks = <<>> THEN <<>>
  ELSE (IF Head(blocks).type \in types THEN <<Head(blocks)>> ELSE <<>>)
         \o SelectBlocks(Tail(blocks), types)

\* lines 941-980: the content blocks of the files of one message
RECURSIVE OpenAIFileBlocks(_)
OpenAIFileBlocks(files) ==
  IF files = <<>> THEN <<>>
  ELSE
    LET file == Head(files) IN
      (IF ~IsImageMimeType(file.mimeType) THEN <<>>
       ELSE IF file.url # Null THEN <<ImageUrlBlock(<<file.url[1]>>)>>
       ELSE IF file.data # Null
         THEN <<ImageUrlBlock(<<"data:", file.mimeType, ";base64,", file.data[1]>>)>>
       ELSE <<>>)
        \o OpenAIFileBlocks(Tail(files))

\* lines 931-986
OpenAIMessages(messages) ==
  [k \in 1..Len(messages) |->
     ProviderMessage(
       messages[k].role,
       ArrayContent((IF messages[k].content # "" THEN <<TextBlock(messages[k].content)>>
                     ELSE <<>>)
                    \o OpenAIFileBlocks(messages[k].files)))]

\* lines 859-895, for files that carry their data inline
RECURSIVE AnthropicFileBlocks(_)
AnthropicFileBlocks(files) ==
  IF files = <<>> THEN <<>>
  ELSE
    LET file == Head(files) IN
      (IF /\ IsImageMimeType(file.mimeType)
          /\ file.url = Null
          /\ file.data # Null
          /\ file.mimeType \in SupportedImageTypes
         THEN <<ImageBlock(file.mimeType, file.data[1])>>
         ELSE <<>>)
        \o AnthropicFileBlocks(Tail(files))

\* lines 876-885: the error prepareAnthropicPayload throws for an inline
\* image of another type, or "" (a system message is skipped before its files
\* are looked at)
InvalidImageMimeType(messages) ==
  IF \E k \in 1..Len(messages) :
       /\ messages[k].role # "system"
       /\ \E f \in 1..Len(messages[k].files) :
            LET file == messages[k].files[f] IN
              /\ IsImageMimeType(file.mimeType)
              /\ file.url = Null
              /\ file.data # Null
              /\ file.mimeType \notin SupportedImageTypes
    THEN "Invalid image mimeType. Supported types are: image/png, image/jpeg, image/gif, image/webp"
    ELSE ""

\* lines 844-901: system messages are taken out of the list
RECURSIVE AnthropicMessages(_)
AnthropicMessages(messages) ==
  IF messages = <<>> THEN <<>>
  ELSE
    LET message == Head(messages) IN
      (IF message.role = "system" THEN <<>>
       ELSE <<ProviderMessage(
                message.role,
                ArrayContent((IF message.content # "" THEN <<TextBlock(message.content)>>
                              ELSE <<>>)
                             \o AnthropicFileBlocks(message.files)))>>)
        \o AnthropicMessages(Tail(messages))

\* preparedPayload.system: the content of the last system message
RECURSIVE SystemOf(_)
SystemOf(messages) ==
  IF messages = <<>> THEN Null
  ELSE IF messages[Len(messages)].role = "system"
    THEN Some(messages[Len(messages)].content)
  ELSE SystemOf(SubSeq(messages, 1, Len(messages) - 1))

\* lines 998-1001 and normalizeMessageContent on a string content
GroqMessages(messages) ==
  [k \in 1..Len(messages) |->
     ProviderMessage(messages[k].role, StringContent(messages[k].content))]

\* lines 688-740, for files that carry their data inline
RECURSIVE GoogleAIMessages(_)
GoogleAIMessages(messages) ==
  IF messages = <<>> THEN <<>>
  ELSE
    LET message == Head(messages) IN
      (IF message.role = "system" THEN <<>>
       ELSE <<ProviderMessage(
                IF message.role = "assistant" THEN "model" ELSE message.role,
                ArrayContent((IF message.content # "" THEN <<TextBlock(message.content)>>
                              ELSE <<>>)
                             \o AnthropicFileBlocks(message.files)))>>)
        \o GoogleAIMessages(Tail(messages))

\* ---- payload translators
\* The request as the caller sees it once the controller has written into the
\* prepared payload.  Every translator returns a new object literal with a
\* new messages array of new message objects (lines 837-842 and 897-900,
\* 913-929 and 981-984, 996-1015, 671-687 and 736-739), so a write to the
\* prepared payload is not a write to the request.
RequestAfterWritesToSameObject(request, prepared) ==
  [request EXCEPT !.model = prepared.model, !.temperature = prepared.temperature]

RequestAfterWrites(request, prepared) == request

prepareOpenAIPayload(p) ==
  [model |-> p.model, temperature |-> p.temperature, tools |-> p.functions,
   tool_choice |-> p.function_call, messages |-> OpenAIMessages(p.messages)]

prepareAnthropicPayloadKeepingSystem(p) ==
  [model |-> p.model, temperature |-> p.temperature, tools |-> p.functions,
   tool_choice |-> Null, messages |-> GroqMessages(p.messages),
   system |-> SystemOf(p.messages)]

prepareAnthropicPayload(p) ==
  [model |-> p.model, temperature |-> p.temperature, tools |-> p.functions,
   tool_choice |-> Null, messages |-> AnthropicMessages(p.messages),
   system |-> SystemOf(p.messages)]

prepareGroqPayload(p) ==
  [model |-> p.model, temperature |-> p.temperature, tools |-> p.functions,
   tool_choice |-> p.function_call, messages |-> GroqMessages(p.messages)]

prepareGoogleAIPayload(p) ==
  [model |-> p.model, temperature |-> Null, tools |-> p.functions,
   tool_choice |-> Null, messages |-> GoogleAIMessages(p.messages),
   system |-> SystemOf(p.messages)]

\* ---- jigAnthropicMessages
\* An element of the array under normalisation: a message object, and the
\* index of the caller's array it is (0 for an object the function creates).
Placeholder == [src |-> 0, role |-> "user", content |-> StringContent("...")]

Separator == "\n\n---\n\n"

\* Array.isArray(content) ? content : [{type: "text", text: content}]
AsBlocks(content) ==
  IF content.isArray THEN content.blocks ELSE <<TextBlock(content.text)>>

Referenced(messages) ==
  [k \in 1..Len(messages) |->
     [src |-> k, role |-> messages[k].role, content |-> messages[k].content]]

WithoutLeadingUser(elements) == elements

\* lines 615-623
WithLeadingUser(elements) ==
  IF elements = <<>> \/ elements[1].role # "user"
    THEN <<Placeholder>> \o elements ELSE elements

\* lines 632-643: the content assigned to lastMessage
MergedContentWithoutSeparator(lastMessage, message) ==
  ArrayContent(AsBlocks(lastMessage.content) \o AsBlocks(message.content))

MergedContent(lastMessage, message) ==
  ArrayContent(AsBlocks(lastMessage.content)
               \o <<TextBlock(Separator)>>
               \o AsBlocks(message.content))

\* lines 626-655: the reduce that combines neighbours of the same role
RECURSIVE MergeSameRole(_, _)
MergeSameRole(acc, rest) ==
  IF rest = <<>> THEN acc
  ELSE IF acc = <<>> THEN MergeSameRole(<<Head(rest)>>, Tail(rest))
  ELSE
    LET lastMessage == acc[Len(acc)]
        message == Head(rest)
    IN IF lastMessage.role = message.role
         THEN MergeSameRole(
                [acc EXCEPT ![Len(acc)].content = MergedContent(lastMessage, message)],
                Tail(rest))
         ELSE MergeSameRole(
                Append(acc, [message EXCEPT !.content = ArrayContent(AsBlocks(@))]),
                Tail(rest))

WithTrailingUserAlways(elements) == Append(elements, Placeholder)

\* lines 657-663
WithTrailingUser(elements) ==
  IF elements # <<>> /\ elements[Len(elements)].role = "assistant"
    THEN Append(elements, Placeholder) ELSE elements

JigElements(messages) ==
  WithTrailingUser(MergeSameRole(<<>>, WithLeadingUser(Referenced(messages))))

Dereferenced(elements) ==
  [k \in 1..Len(elements) |->
     ProviderMessage(elements[k].role, elements[k].content)]

\* jigAnthropicMessages, lines 606-666: the array it returns
jigAnthropicMessages(messages) == Dereferenced(JigElements(messages))

\* the caller's array afterwards: the reduce assigns to the content of the
\* message objects it keeps, and these are the caller's objects
MessagesAfterJig(messages) ==
  LET elements == JigElements(messages) IN
    [k \in 1..Len(messages) |->
       IF \E e \in 1..Len(elements) : elements[e].src = k
         THEN LET e == CHOOSE e \in 1..Len(elements) : elements[e].src = k
              IN ProviderMessage(elements[e].role, elements[e].content)
         ELSE messages[k]]

\* ---- the earlier jigAnthropicMessages (src/unnamed/part_000, lines 1154-1214)
\* `${message.content}` in a template string
RECURSIVE JoinObjects(_)
JoinObjects(blocks) ==
  IF blocks = <<>> THEN ""
  ELSE IF Len(blocks) = 1 THEN "[object Object]"
  ELSE "[object Object]," \o JoinObjects(Tail(blocks))

TemplateString(content) ==
  IF content.isArray THEN JoinObjects(content.blocks) ELSE content.text

\* lines 1160-1168: a system message becomes a user message
SystemAsUser(messages) ==
  [k \in 1..Len(messages) |->
     IF messages[k].role = "system"
       THEN ProviderMessage(
              "user",
              StringContent("# CONTEXT ---\n" \o TemplateString(messages[k].content)
                            \o "\nBefore answering you can reason about the instructions and answer using <thinking></thinking> tags\n---"))
       ELSE messages[k]]

OppositePlaceholder(role) ==
  ProviderMessage(IF role = "user" THEN "assistant" ELSE "user", StringContent("..."))

\* lines 1182-1203: the reduce that puts a placeholder between neighbours of
\* the same role
RECURSIVE InsertBetweenSameRole(_, _)
InsertBetweenSameRole(acc, rest) ==
  IF rest = <<>> THEN acc
  ELSE IF acc = <<>> THEN InsertBetweenSameRole(<<Head(rest)>>, Tail(rest))
  ELSE
    LET lastMessage == acc[Len(acc)]
        message == Head(rest)
    IN IF lastMessage.role = message.role
         THEN InsertBetweenSameRole(
                acc \o <<OppositePlaceholder(message.role), message>>, Tail(rest))
         ELSE InsertBetweenSameRole(Append(acc, message), Tail(rest))

jigAnthropicMessagesInserting(messages) ==
  LET mapped == SystemAsUser(messages)
      led == IF mapped = <<>> \/ mapped[1].role # "user"
               THEN <<ProviderMessage("user", StringContent("..."))>> \o mapped
               ELSE mapped
      alternated == InsertBetweenSameRole(<<>>, led)
  IN IF alternated # <<>> /\ alternated[Len(alternated)].role = "assistant"
       THEN Append(alternated, ProviderMessage("user", StringContent("...")))
       ELSE alternated

\* ---- OpenAI-compatible path
\* What the transport does with one attempt: fetch rejects, the response has
\* no body, or it has a body with these bytes.
FetchRejects == [kind |-> "reject", bytes |-> <<>>]
NoResponseBody == [kind |-> "nobody", bytes |-> <<>>]
ResponseBody(bytes) == [kind |-> "body", bytes |-> bytes]

ErrorPolicyViolation == Rec("error", <<"content_policy_violation">>)
ErrorNoCode == Rec("error", <<>>)

OpenAiResponses ==
  {FetchRejects, NoResponseBody}
    \cup {ResponseBody(BodyOf(recs)) :
            recs \in {<<>>, <<ContentHel, ContentLo>>, <<ToolOpenF, Tool0Close>>,
                      <<NoChoices, RoleOnly, ContentEAcute>>, <<ToolOpenF>>,
                      <<ToolG>>, <<ContentDone>>,
                      <<ErrorContentFilter>>, <<ErrorPolicyViolation>>,
                      <<ContentHel, ErrorNoCode>>}}
    \cup {ResponseBody(Flatten(<<ContentHel>>))}

\* the service an attempt uses: `if (!openAiConfig) openAiConfig = {service: "openai"}`
ServiceOf(openAiConfig) ==
  IF openAiConfig = Null THEN "openai" ELSE openAiConfig[1].service

\* callOpenAIStream up to the fetch: the error thrown before anything is
\* sent, or "" when the request is sent
AzureConfigError(openAiPayload, openAiConfig) ==
  IF ServiceOf(openAiConfig) # "azure" THEN ""
  ELSE IF openAiConfig[1].modelConfigMap = Null
    THEN "OpenAI config modelConfigMap is required when using Azure OpenAI service."
  ELSE IF openAiPayload.model \notin DOMAIN openAiConfig[1].modelConfigMap[1]
    THEN "TypeError: Cannot read properties of undefined (reading 'endpoint')"
  ELSE IF openAiConfig[1].modelConfigMap[1][openAiPayload.model].endpoint = ""
    THEN "Azure OpenAI endpoint is required in modelConfigMap."
  ELSE ""

callOpenAIStream(openAiPayload, openAiConfig, response) ==
  IF AzureConfigError(openAiPayload, openAiConfig) # ""
    THEN Threw(AzureConfigError(openAiPayload, openAiConfig), Null)
  ELSE IF response.kind = "reject" THEN Threw("TypeError: fetch failed", Null)
  ELSE IF response.kind = "nobody" THEN Threw("Stream error: no response body", Null)
  ELSE RunStream(response.bytes, openAiPayload.tools).outcome

FallbackModelOnly(openAiPayload) == [openAiPayload EXCEPT !.model = GPT4_0409]

\* lines 139-141
FallbackModelAndTemperature(openAiPayload) ==
  [openAiPayload EXCEPT !.model = GPT4_0409, !.temperature = Some(FallbackTemperature)]

StripOnNoErrorCode(openAiPayload, errorCode) == openAiPayload

\* lines 143-156: on content_policy_violation every message keeps only its
\* text blocks
StripNonTextBlocks(openAiPayload, errorCode) ==
  LET messages == openAiPayload.messages
      filtered(message) ==
        IF message.content.isArray
          THEN [message EXCEPT
                  !.content.blocks = SelectBlocks(message.content.blocks, {"text"})]
          ELSE message
  IN IF errorCode = <<"content_policy_violation">>
       THEN [openAiPayload EXCEPT
               !.messages = [k \in 1..Len(messages) |-> filtered(messages[k])]]
       ELSE openAiPayload

SwitchOnContentFilterAtOnce(openAiConfig, index, errorCode) ==
  IF openAiConfig # Null /\ openAiConfig[1].service = "azure"
       /\ errorCode = <<"content_filter">>
    THEN Some([openAiConfig[1] EXCEPT !.service = "openai"])
    ELSE openAiConfig

\* lines 158-170
SwitchOnContentFilter(openAiConfig, index, errorCode) ==
  IF index >= 2 /\ openAiConfig # Null /\ ServiceOf(openAiConfig) = "azure"
       /\ errorCode = <<"content_filter">>
    THEN Some([openAiConfig[1] EXCEPT !.service = "openai"])
    ELSE openAiConfig

SwitchOnFourthRetry(openAiConfig, index) ==
  IF index = 4 /\ openAiConfig # Null /\ openAiConfig[1].service = "azure"
    THEN Some([openAiConfig[1] EXCEPT !.service = "openai"])
    ELSE openAiConfig

\* lines 172-181
SwitchOnThirdRetry(openAiConfig, index) ==
  IF index = 3 /\ openAiConfig # Null /\ ServiceOf(openAiConfig) = "azure"
    THEN Some([openAiConfig[1] EXCEPT !.service = "openai"])
    ELSE openAiConfig

DisableToolsOnThirdRetry(openAiPayload, index) ==
  IF index = 3 /\ openAiPayload.tools # Null
    THEN [openAiPayload EXCEPT !.tool_choice = Some("none")]
    ELSE openAiPayload

\* lines 183-193
DisableToolsOnFourthRetry(openAiPayload, index) ==
  IF index = 4 /\ openAiPayload.tools # Null
    THEN [openAiPayload EXCEPT !.tool_choice = Some("none")]
    ELSE openAiPayload

\* await timeout(250)
OpenAiRetryDelay == 250

OpenAiLoopStopsOneEarly(index, retries) == index < retries

\* the loop condition of callOpenAiWithRetries: i <= retries
OpenAiLoopContinues(index, retries) == index <= retries

\* the system instruction of the request a call sends: `system: AiPayload.system`
\* of the Anthropic request (line 526; the Bedrock request of lines 494-504
\* has no such field) and `systemInstruction` of the Google model (line 755)
SentSystem(provider, p, service) ==
  IF provider = "anthropic" /\ service # "bedrock" THEN p.system
  ELSE IF provider = "google" THEN p.system
  ELSE Null

\* the history entry of one provider call: what was sent and whether the
\* call returned a message
CallEntry(provider, p, service, out) ==
  [provider |-> provider, index |-> i, model |-> p.model,
   temperature |-> p.temperature, tool_choice |-> p.tool_choice,
   messages |-> p.messages, system |-> SentSystem(provider, p, service),
   service |-> service, ok |-> out.kind = "returned"]

\* one iteration of the loop of callOpenAiWithRetries
OpenAiAttempt ==
  /\ pc = "openai"
  /\ OpenAiLoopContinues(i, bound)
  /\ \E response \in OpenAiResponses :
       LET out == callOpenAIStream(payload, aiConfig, response)
           errorCode == ErrorCodeOf(out)
       IN /\ calls' = Append(calls, CallEntry("openai", payload, ServiceOf(aiConfig), out))
          /\ lastOutcome' = out
          /\ IF out.kind = "returned"
               THEN /\ pc' = "returned"
                    /\ result' = out
                    /\ UNCHANGED <<payload, aiConfig, i, slept>>
               ELSE /\ payload' = DisableToolsOnFourthRetry(
                                     StripNonTextBlocks(
                                       FallbackModelAndTemperature(payload),
                                       errorCode),
                                     i)
                    /\ aiConfig' = SwitchOnThirdRetry(
                                      SwitchOnContentFilter(aiConfig, i, errorCode), i)
                    /\ i' = i + 1
                    /\ slept' = Append(slept, OpenAiRetryDelay)
                    /\ UNCHANGED <<pc, result>>
  /\ aiPayload' = RequestAfterWrites(aiPayload, payload')
  /\ UNCHANGED <<retriesArg, bound, lastResponse, rateLimited, lastRaw>>
  /\ UNCHANGED <<callerVars, streamVars, jigVars>>

\* after the loop of callOpenAiWithRetries
OpenAiExhausted ==
  /\ pc = "openai"
  /\ ~OpenAiLoopContinues(i, bound)
  /\ pc' = "threw"
  /\ result' = ExhaustionError(FailedOpenAI, bound, Null)
  /\ UNCHANGED <<aiPayload, retriesArg, aiConfig, i, bound, payload, calls,
                 lastOutcome, lastResponse, histVars>>
  /\ UNCHANGED <<callerVars, streamVars, jigVars>>

\* ---- Anthropic path
\* An answer of the response: a content block {type, text | name, input};
\* the text is a sequence of characters and tag tokens.
TextAnswer(text) == [type |-> Some("text"), text |-> text, name |-> <<>>]
ToolUseAnswer(name) == [type |-> Some("tool_use"), text |-> <<>>, name |-> name]
UntypedAnswer == [type |-> Null, text |-> <<>>, name |-> <<>>]

ThinkingTags == {"<thinking>", "</thinking>"}
AnswerTags == {"<answer>", "</answer>"}

RECURSIVE RemoveTokens(_, _)
RemoveTokens(text, tokens) ==
  IF text = <<>> THEN <<>>
  ELSE (IF Head(text) \in tokens THEN <<>> ELSE <<Head(text)>>)
         \o RemoveTokens(Tail(text), tokens)

RECURSIVE SkipThroughClose(_)
SkipThroughClose(text) ==
  IF Head(text) = "</thinking>" THEN Tail(text) ELSE SkipThroughClose(Tail(text))

\* text.replace(/<thinking>.*?<\/thinking>/gs, "")
RECURSIVE RemoveThinking(_)
RemoveThinking(text) ==
  IF text = <<>> THEN <<>>
  ELSE IF Head(text) = "<thinking>"
          /\ \E k \in 2..Len(text) : text[k] = "</thinking>"
    THEN RemoveThinking(SkipThroughClose(Tail(text)))
    ELSE <<Head(text)>> \o RemoveThinking(Tail(text))

\* lines 560-574: the text of one text answer
AnswerText(answer) ==
  LET text == Trim(RemoveTokens(RemoveThinking(answer.text), AnswerTags))
  IN IF text = <<>>
       THEN RemoveTokens(answer.text, ThinkingTags \cup AnswerTags)
       ELSE text

\* lines 552-588: the loop over the answers; `untyped` when an answer has no
\* type
RECURSIVE FoldAnswers(_, _)
FoldAnswers(acc, answers) ==
  IF answers = <<>> \/ acc.untyped THEN acc
  ELSE
    LET answer == Head(answers) IN
      IF answer.type = Null THEN [acc EXCEPT !.untyped = TRUE]
      ELSE IF answer.type = Some("text")
        THEN FoldAnswers(
               [acc EXCEPT !.textResponse =
                  IF @ # <<>> THEN @ \o <<NL, NL>> \o AnswerText(answer)
                  ELSE AnswerText(answer)],
               Tail(answers))
      ELSE IF answer.type = Some("tool_use")
        THEN FoldAnswers(
               [acc EXCEPT !.functionCalls =
                  Append(@, [name |-> answer.name, arguments |-> EmptyObject])],
               Tail(answers))
      ELSE FoldAnswers(acc, Tail(answers))

\* What the provider does with one Anthropic request: the post rejects (with
\* the error type of the response body, Null when there is no response), or
\* it answers with content blocks.
AnthropicRejects(errorType) == [kind |-> "reject", errorType |-> errorType, content |-> <<>>]
AnthropicAnswers(content) == [kind |-> "data", errorType |-> Null, content |-> content]

Hi == <<"h", "i">>

AnthropicResponses ==
  {AnthropicRejects(Null), AnthropicRejects(Some("rate_limit_error")),
   AnthropicRejects(Some("overloaded_error"))}
    \cup {AnthropicAnswers(content) :
            content \in {<<>>, <<TextAnswer(Hi)>>, <<TextAnswer(<<>>)>>,
                         <<ToolUseAnswer(<<"f">>)>>, <<UntypedAnswer>>,
                         <<TextAnswer(<<"<thinking>", "x", "</thinking>">>)>>,
                         <<TextAnswer(<<"<thinking>", "</thinking>">>)>>,
                         <<TextAnswer(Hi), ToolUseAnswer(<<"f">>), TextAnswer(Hi)>>}}

\* callAnthropic, lines 475-604
callAnthropic(response) ==
  IF response.kind = "reject" THEN Threw("AxiosError", Null)
  ELSE IF response.content = <<>> THEN Threw("Missing answer in Anthropic API", Null)
  ELSE
    LET acc == FoldAnswers([textResponse |-> <<>>, functionCalls |-> <<>>,
                            untyped |-> FALSE], response.content)
    IN IF acc.untyped THEN Threw("Missing answer type in Anthropic API", Null)
       ELSE IF acc.textResponse = <<>> /\ acc.functionCalls = <<>>
         THEN Threw("Missing text & fns in Anthropic API response", Null)
       ELSE Returned([role |-> "assistant",
                      content |-> Some(acc.textResponse),
                      function_call |->
                        IF acc.functionCalls = <<>> THEN Undefined
                        ELSE Some(acc.functionCalls[1])])

\* the model the request names: Bedrock always gets its fixed model id
AnthropicSentModel(AiPayload, AiConfig) ==
  IF AiConfig # Null /\ AiConfig[1].service = "bedrock"
    THEN BedrockModelId ELSE AiPayload.model

\* lines 443-446
SonnetOnLastAttempt(AiPayload, index, attempts) ==
  IF index = attempts - 1 THEN [AiPayload EXCEPT !.model = SONNET] ELSE AiPayload

\* lines 460-463
SonnetWhileRateLimited(AiPayload, response) ==
  [AiPayload EXCEPT !.model =
     IF response.errorType = Some("rate_limit_error") THEN SONNET ELSE HAIKU]

SonnetOnRateLimit(AiPayload, response) ==
  IF response.errorType = Some("rate_limit_error")
    THEN [AiPayload EXCEPT !.model = SONNET] ELSE AiPayload

\* the raw response an Anthropic attempt received: the error body of a
\* rejected post that got an answer, or the data of a resolved post
RawAnthropicResponse(response) ==
  IF response.kind = "data" THEN Some(response)
  ELSE IF response.errorType # Null THEN Some(response)
  ELSE Null

BackoffStep == 125

BackoffDelayFromOne(index) == BackoffStep * (index + 1)

\* await timeout(125 * i) of callAnthropicWithRetries and callGroqWithRetries
BackoffDelay(index) == BackoffStep * index

\* the loop condition of callAnthropicWithRetries and callGroqWithRetries
LoopContinues(index, attempts) == index < attempts

\* one iteration of the loop of callAnthropicWithRetries
AnthropicAttempt ==
  /\ pc = "anthropic"
  /\ LoopContinues(i, bound)
  /\ \E response \in AnthropicResponses :
       LET sent == SonnetOnLastAttempt(payload, i, bound)
           out == callAnthropic(response)
           \* line 480: the array sent, and the payload's own array afterwards
           jigged == [sent EXCEPT !.messages = MessagesAfterJig(@)]
       IN /\ calls' = Append(calls,
                        CallEntry("anthropic",
                                  [sent EXCEPT !.model = AnthropicSentModel(sent, aiConfig),
                                               !.messages = jigAnthropicMessages(@)],
                                  IF aiConfig = Null THEN "anthropic"
                                  ELSE aiConfig[1].service, out))
          /\ lastOutcome' = out
          /\ IF out.kind = "returned"
               THEN /\ pc' = "returned"
                    /\ result' = out
                    /\ lastResponse' = Some(out.message)
                    /\ payload' = jigged
                    /\ UNCHANGED <<i, histVars>>
               ELSE /\ payload' = SonnetOnRateLimit(jigged, response)
                    /\ i' = i + 1
                    /\ rateLimited' =
                         (rateLimited \/ response.errorType = Some("rate_limit_error"))
                    /\ lastRaw' = IF RawAnthropicResponse(response) # Null
                                    THEN RawAnthropicResponse(response) ELSE lastRaw
                    /\ slept' = Append(slept, BackoffDelay(i))
                    /\ UNCHANGED <<pc, result, lastResponse>>
  /\ aiPayload' = RequestAfterWrites(aiPayload, payload')
  /\ UNCHANGED <<retriesArg, aiConfig, bound>>
  /\ UNCHANGED <<callerVars, streamVars, jigVars>>

\* after the loop of callAnthropicWithRetries
AnthropicExhausted ==
  /\ pc = "anthropic"
  /\ ~LoopContinues(i, bound)
  /\ pc' = "threw"
  /\ result' = ExhaustionError(FailedAnthropic, bound, lastResponse)
  /\ UNCHANGED <<aiPayload, retriesArg, aiConfig, i, bound, payload, calls,
                 lastOutcome, lastResponse, histVars>>
  /\ UNCHANGED <<callerVars, streamVars, jigVars>>

\* ---- Groq path
\* What the provider does with one Groq request: the post rejects, or it
\* answers with data.choices; a choice has a message (Null when missing) with
\* content and tool_calls.
GroqRejects == [kind |-> "reject", choices |-> <<>>]
GroqAnswers(choices) == [kind |-> "data", choices |-> choices]
GroqMessage(content, tool_calls) ==
  [message |-> Some([content |-> content, tool_calls |-> tool_calls])]
GroqToolCall(name, arguments) == [function |-> [name |-> name, arguments |-> arguments]]

GroqResponses ==
  {GroqRejects, GroqAnswers(<<>>), GroqAnswers(<<[message |-> Null]>>)}
    \cup {GroqAnswers(<<GroqMessage(content, tool_calls)>>) :
            content \in {Null, Some(<<>>), Some(Hi)},
            tool_calls \in {Null, Some(<<>>),
                            Some(<<GroqToolCall(<<"f">>, <<"{", "}">>)>>),
                            Some(<<GroqToolCall(<<"f">>, <<"{">>)>>)}}

\* the raw response a Groq attempt received
RawGroqResponse(response) ==
  IF response.kind = "data" THEN Some(response) ELSE Null

\* callGroq, lines 1032-1070
callGroq(response) ==
  IF response.kind = "reject" THEN Threw("AxiosError", Null)
  ELSE IF response.choices = <<>>
    THEN Threw("TypeError: Cannot read properties of undefined (reading 'message')", Null)
  ELSE IF response.choices[1].message = Null
    THEN Threw("Missing answer in Groq API", Null)
  ELSE
    LET answer == response.choices[1].message[1]
        textResponse ==
          IF answer.content = Null \/ answer.content = Some(<<>>)
            THEN Null ELSE answer.content
        hasToolCall == answer.tool_calls # Null /\ answer.tool_calls[1] # <<>>
        toolCall == answer.tool_calls[1][1]
        arguments == JSONParse(toolCall.function.arguments)
    IN IF hasToolCall /\ ~arguments.ok THEN Threw("SyntaxError", Null)
       ELSE Returned([role |-> "assistant",
                      content |-> textResponse,
                      function_call |->
                        IF hasToolCall
                          THEN Some([name |-> toolCall.function.name,
                                     arguments |-> arguments.json])
                          ELSE Null])

\* one iteration of the loop of callGroqWithRetries
GroqAttempt ==
  /\ pc = "groq"
  /\ LoopContinues(i, bound)
  /\ \E response \in GroqResponses :
       LET out == callGroq(response)
       IN /\ calls' = Append(calls, CallEntry("groq", payload, "groq", out))
          /\ lastOutcome' = out
          /\ IF out.kind = "returned"
               THEN /\ pc' = "returned"
                    /\ result' = out
                    /\ lastResponse' = Some(out.message)
                    /\ UNCHANGED <<i, histVars>>
               ELSE /\ i' = i + 1
                    /\ lastRaw' = IF RawGroqResponse(response) # Null
                                    THEN RawGroqResponse(response) ELSE lastRaw
                    /\ slept' = Append(slept, BackoffDelay(i))
                    /\ UNCHANGED <<pc, result, lastResponse, rateLimited>>
  /\ UNCHANGED <<aiPayload, retriesArg, aiConfig, bound, payload>>
  /\ UNCHANGED <<callerVars, streamVars, jigVars>>

\* after the loop of callGroqWithRetries
GroqExhausted ==
  /\ pc = "groq"
  /\ ~LoopContinues(i, bound)
  /\ pc' = "threw"
  /\ result' = ExhaustionError(FailedGroq, bound, lastResponse)
  /\ UNCHANGED <<aiPayload, retriesArg, aiConfig, i, bound, payload, calls,
                 lastOutcome, lastResponse, histVars>>
  /\ UNCHANGED <<callerVars, streamVars, jigVars>>

\* ---- Google path
\* What the provider does with the one Google request: sendMessage rejects,
\* or the response has text() and functionCalls().
GoogleRejects == [kind |-> "reject", text |-> Null, functionCalls |-> Null]
GoogleAnswers(text, functionCalls) ==
  [kind |-> "data", text |-> text, functionCalls |-> functionCalls]

GoogleResponses ==
  {GoogleRejects}
    \cup {GoogleAnswers(text, functionCalls) :
            text \in {Null, Some(<<>>), Some(Hi)},
            functionCalls \in {Null, Some(<<>>),
                               Some(<<[name |-> <<"f">>, args |-> EmptyObject]>>)}}

\* callGoogleAI, lines 745-785
callGoogleAI(response) ==
  IF response.kind = "reject" THEN Threw("GoogleGenerativeAIError", Null)
  ELSE
    LET parsedFunctionCalls ==
          IF response.functionCalls = Null THEN Null
          ELSE Some([k \in 1..Len(response.functionCalls[1]) |->
                       [name |-> response.functionCalls[1][k].name,
                        arguments |-> response.functionCalls[1][k].args]])
    IN Returned([role |-> "assistant",
                 content |->
                   IF response.text = Null \/ response.text = Some(<<>>)
                     THEN Null ELSE response.text,
                 function_call |->
                   IF parsedFunctionCalls = Null \/ parsedFunctionCalls[1] = <<>>
                     THEN Null ELSE Some(parsedFunctionCalls[1][1])])

\* the Google branch of callWithRetries: one call, no loop
GoogleCall ==
  /\ pc = "google"
  /\ \E response \in GoogleResponses :
       LET out == callGoogleAI(response)
       IN /\ calls' = Append(calls, CallEntry("google", payload, "google", out))
          /\ lastOutcome' = out
          /\ pc' = out.kind
          /\ result' = out
  /\ UNCHANGED <<aiPayload, retriesArg, aiConfig, i, bound, payload, lastResponse,
                 histVars>>
  /\ UNCHANGED <<callerVars, streamVars, jigVars>>

\* ---- callWithRetries, lines 787-828
\* `retries: number = 5`
RetriesOf(arg) == IF arg = Null THEN DefaultRetries ELSE arg[1]

\* the retries argument callWithRetries hands to callGroqWithRetries: none
GroqRetriesArgument(arg) == Null

\* the dispatch on the model and the preparation of the provider payload
CallWithRetries ==
  /\ pc = "start"
  /\ i' = 0
  /\ IF /\ \/ isAnthropicPayload(aiPayload)
           \/ (/\ ~isOpenAiPayload(aiPayload)
               /\ ~isGroqPayload(aiPayload)
               /\ isGoogleAIPayload(aiPayload))
        /\ InvalidImageMimeType(aiPayload.messages) # ""
       THEN /\ pc' = "threw"
            /\ result' = Threw(InvalidImageMimeType(aiPayload.messages), Null)
            /\ UNCHANGED <<payload, bound>>
     ELSE IF isAnthropicPayload(aiPayload)
       THEN /\ pc' = "anthropic"
            /\ payload' = prepareAnthropicPayload(aiPayload)
            /\ bound' = RetriesOf(Some(RetriesOf(retriesArg)))
            /\ UNCHANGED result
     ELSE IF isOpenAiPayload(aiPayload)
       THEN /\ pc' = "openai"
            /\ payload' = prepareOpenAIPayload(aiPayload)
            /\ bound' = RetriesOf(Some(RetriesOf(retriesArg)))
            /\ UNCHANGED result
     ELSE IF isGroqPayload(aiPayload)
       THEN /\ pc' = "groq"
            /\ payload' = prepareGroqPayload(aiPayload)
            /\ bound' = RetriesOf(GroqRetriesArgument(Some(RetriesOf(retriesArg))))
            /\ UNCHANGED result
     ELSE /\ pc' = "google"
          /\ payload' = prepareGoogleAIPayload(aiPayload)
          /\ bound' = 0
          /\ UNCHANGED result
  /\ UNCHANGED <<aiPayload, retriesArg, aiConfig, calls, lastOutcome, lastResponse,
                 histVars>>
  /\ UNCHANGED <<callerVars, streamVars, jigVars>>

\* the arrays of messages a caller may pass
Roles == {"user", "assistant", "system"}

Contents == {StringContent("hi"), ArrayContent(<<TextBlock("yo")>>)}

AnthropicAIMessages == [role : Roles, content : Contents]

MessageArrays == UNION {[1..n -> AnthropicAIMessages] : n \in 0..MaxMessages}

JigIdle ==
  /\ givenMessages = <<>>
  /\ inputMessages = <<>>
  /\ anthropicMessages = <<>>
  /\ jigPc = "idle"

JigInit ==
  /\ givenMessages \in MessageArrays
  /\ inputMessages = givenMessages
  /\ anthropicMessages = <<>>
  /\ jigPc = "start"

\* jigAnthropicMessages(messages) of src/index.ts
JigMerging ==
  /\ jigPc = "start"
  /\ anthropicMessages' = jigAnthropicMessages(inputMessages)
  /\ inputMessages' = MessagesAfterJig(inputMessages)
  /\ jigPc' = "merged"
  /\ UNCHANGED givenMessages
  /\ UNCHANGED <<streamVars, callVars>>

\* jigAnthropicMessages(messages) of the earlier source
JigInserting ==
  /\ jigPc = "start"
  /\ anthropicMessages' = jigAnthropicMessagesInserting(inputMessages)
  /\ jigPc' = "inserted"
  /\ UNCHANGED <<givenMessages, inputMessages>>
  /\ UNCHANGED <<streamVars, callVars>>

\* ---- the inputs of callWithRetries
Temperatures == {Null, Some(2)}
FunctionSchemas == {Null, Some({<<"f">>})}
FunctionCallDirectives == {Null, Some("auto")}

Photo == File("image/png", Null, Some("iVBORw0KGgo"))
Pdf == File("application/pdf", Some("https://host/a.pdf"), Null)
Heic == File("image/heic", Null, Some("AAAAGGZ0eXA"))

\* the conversations of the model: a plain question, and a conversation with
\* a question with a picture and a document, a system message, and an
\* assistant message that is only a picture
MessageLists ==
  {<<GenericMessage("user", "hi", <<>>)>>,
   <<GenericMessage("user", "look", <<Photo, Pdf>>),
     GenericMessage("system", "be brief", <<>>),
     GenericMessage("assistant", "", <<Photo>>)>>}

GenericPayloads ==
  [model : GPTModel \cup ClaudeModel \cup GroqModel \cup GeminiModel,
   temperature : Temperatures,
   functions : FunctionSchemas,
   function_call : FunctionCallDirectives,
   messages : MessageLists]
  \cup
  \* a request with two system messages
  [model : ClaudeModel \cup GeminiModel, temperature : {Null}, functions : {Null},
   function_call : {Null},
   messages : {<<GenericMessage("system", "be brief", <<>>),
                 GenericMessage("user", "hi", <<>>),
                 GenericMessage("system", "be kind", <<>>)>>}]
  \cup
  \* a request whose picture is an inline image of a type the Anthropic and
  \* Google translators reject
  [model : ClaudeModel \cup GeminiModel, temperature : {Null}, functions : {Null},
   function_call : {Null},
   messages : {<<GenericMessage("user", "see", <<Heic>>)>>}]
  \cup
  \* a request with two user messages in a row
  [model : ClaudeModel, temperature : {Null}, functions : {Null},
   function_call : {Null},
   messages : {<<GenericMessage("user", "hi", <<>>),
                 GenericMessage("user", "more", <<>>)>>}]

RetriesArguments == {Null} \cup {Some(n) : n \in 0..MaxRetries}

AzureEntry == [endpoint |-> "https://resource.openai.azure.com"]

OpenAIConfigs ==
  {Null,
   Some([service |-> "openai", modelConfigMap |-> Null]),
   Some([service |-> "azure", modelConfigMap |-> Null]),
   Some([service |-> "azure",
         modelConfigMap |-> Some([m \in GPTModel |-> AzureEntry])]),
   Some([service |-> "azure",
         modelConfigMap |-> Some([m \in {GPT4O} |-> AzureEntry])])}

AnthropicAIConfigs ==
  {Null, Some([service |-> "anthropic", modelConfigMap |-> Null]),
   Some([service |-> "bedrock", modelConfigMap |-> Null])}

ConfigsFor(p) ==
  IF isOpenAiPayload(p) THEN OpenAIConfigs
  ELSE IF isAnthropicPayload(p) THEN AnthropicAIConfigs
  ELSE {Null}

IdlePayload ==
  [model |-> GPT4O, temperature |-> Null, tools |-> Null, tool_choice |-> Null,
   messages |-> <<>>]

StreamIdle ==
  /\ records = <<>>
  /\ body = <<>>
  /\ functionNames = Null
  /\ pos = 0
  /\ partialChunk = <<>>
  /\ paragraph = <<>>
  /\ functionCallName = <<>>
  /\ functionCallArgs = <<>>
  /\ parsed = <<>>
  /\ carried = FALSE
  /\ outcome = Pending
  /\ abortTimeouts = 0
  /\ aborted = FALSE

CallIdle ==
  /\ aiPayload = [model |-> GPT4O, temperature |-> Null, functions |-> Null,
                  function_call |-> Null, messages |-> <<>>]
  /\ retriesArg = Null
  /\ aiConfig = Null
  /\ pc = "idle"
  /\ i = 0
  /\ bound = 0
  /\ payload = IdlePayload
  /\ calls = <<>>
  /\ lastOutcome = Pending
  /\ lastResponse = Null
  /\ result = Pending
  /\ rateLimited = FALSE
  /\ lastRaw = Null
  /\ slept = <<>>
  /\ givenPayload = aiPayload
  /\ givenConfig = Null
  /\ invocation = 0

CallInit ==
  /\ aiPayload \in GenericPayloads
  /\ retriesArg \in RetriesArguments
  /\ aiConfig \in ConfigsFor(aiPayload)
  /\ pc = "start"
  /\ i = 0
  /\ bound = 0
  /\ payload = IdlePayload
  /\ calls = <<>>
  /\ lastOutcome = Pending
  /\ lastResponse = Null
  /\ result = Pending
  /\ rateLimited = FALSE
  /\ lastRaw = Null
  /\ slept = <<>>
  /\ givenPayload = aiPayload
  /\ givenConfig = aiConfig
  /\ invocation = 1

\* the requests of SpecPrepare: one user message, with or without text, and
\* up to MaxFiles attachments, pictures with inline data and documents
Photo2 == File("image/png", Null, Some("R0lGODlh"))

FileLists == UNION {[1..n -> {Photo, Photo2, Pdf}] : n \in 0..MaxFiles}

PrepareInit ==
  /\ aiPayload \in [model : {GPT4O, HAIKU, GEMINI_15_PRO},
                    temperature : {Null}, functions : {Null}, function_call : {Null},
                    messages : {<<GenericMessage("user", text, files)>> :
                                  text \in {"", "look"}, files \in FileLists}]
  /\ retriesArg = Null
  /\ aiConfig = Null
  /\ pc = "start"
  /\ i = 0
  /\ bound = 0
  /\ payload = IdlePayload
  /\ calls = <<>>
  /\ lastOutcome = Pending
  /\ lastResponse = Null
  /\ result = Pending
  /\ rateLimited = FALSE
  /\ lastRaw = Null
  /\ slept = <<>>
  /\ givenPayload = aiPayload
  /\ givenConfig = aiConfig
  /\ invocation = 1

\* the caller calls callWithRetries again with the same request object and
\* the same config object, after the first invocation has ended
CallAgain ==
  /\ pc \in {"returned", "threw"}
  /\ invocation = 1
  /\ invocation' = 2
  /\ pc' = "start"
  /\ i' = 0
  /\ bound' = 0
  /\ payload' = IdlePayload
  /\ calls' = <<>>
  /\ lastOutcome' = Pending
  /\ lastResponse' = Null
  /\ result' = Pending
  /\ rateLimited' = FALSE
  /\ lastRaw' = Null
  /\ slept' = <<>>
  /\ UNCHANGED <<aiPayload, retriesArg, aiConfig, givenPayload, givenConfig>>
  /\ UNCHANGED <<streamVars, jigVars>>

\* the requests of the two invocations: tools and temperature left out, the
\* plain question, the largest retries argument
TwoCallsInit ==
  /\ CallInit
  /\ aiPayload.temperature = Null
  /\ aiPayload.functions = Null
  /\ aiPayload.function_call = Null
  /\ Len(aiPayload.messages) = 1
  /\ retriesArg = Some(MaxRetries)

\* ---------------------------------------------------------- specifications
\* Spec: one stream attempt of callOpenAIStream, the body split into reads
Init == StreamInit(StreamRecords) /\ CallIdle /\ JigIdle

Next == ReadChunk \/ ReadDone \/ ReadFails \/ ReadTimesOut \/ AbortTimeoutFires

Spec == Init /\ [][Next]_vars

\* SpecCall: one invocation of callWithRetries
InitCall == StreamIdle /\ CallInit /\ JigIdle

NextCall ==
  \/ CallWithRetries
  \/ OpenAiAttempt
  \/ OpenAiExhausted
  \/ AnthropicAttempt
  \/ AnthropicExhausted
  \/ GroqAttempt
  \/ GroqExhausted
  \/ GoogleCall

SpecCall == InitCall /\ [][NextCall]_vars

\* SpecJig: one application of jigAnthropicMessages to an array of messages
InitJig == StreamIdle /\ CallIdle /\ JigInit

NextJig == JigMerging \/ JigInserting

SpecJig == InitJig /\ [][NextJig]_vars

\* SpecTwoCalls: two invocations of callWithRetries, one after the other,
\* with the same arguments
InitTwoCalls == StreamIdle /\ TwoCallsInit /\ JigIdle

NextTwoCalls == NextCall \/ CallAgain

SpecTwoCalls == InitTwoCalls /\ [][NextTwoCalls]_vars

\* LiveSpecCall: one invocation with the requests of SpecTwoCalls, in which
\* every attempt finishes and the controller goes on after each
LiveSpecCall == InitTwoCalls /\ [][NextCall]_vars /\ WF_vars(NextCall)

\* SpecPrepare: the payload translators applied to requests with attachments
InitPrepare == StreamIdle /\ PrepareInit /\ JigIdle

NextPrepare == CallWithRetries

SpecPrepare == InitPrepare /\ [][NextPrepare]_vars

\* SpecParse: parseStreamedResponse applied to what a stream has accumulated
\* ---- one stream attempt on streams that hold records without choices
NoChoicesRecords == {NoChoices, ContentHel, ToolOpenF, Tool0Close}

InitNoChoices == StreamInit(NoChoicesRecords) /\ CallIdle /\ JigIdle

SpecNoChoices == InitNoChoices /\ [][Next]_vars

\* ---- one stream attempt on streams with a two-byte character
TwoByteRecords == {ContentEAcute, ContentHel}

InitBytes == StreamInit(TwoByteRecords) /\ CallIdle /\ JigIdle

SpecBytes == InitBytes /\ [][Next]_vars

InitParse == ParseInit /\ CallIdle /\ JigIdle

NextParse == ParseAtSentinel

SpecParse == InitParse /\ [][NextParse]_vars

\* ---------------------------------------------------------------- claims
\* the attempt has ended, and not because the transport failed, closed the
\* body early or was aborted
Finished ==
  /\ outcome.kind # "pending"
  /\ outcome.error \notin {"TypeError: terminated", "Stream error: ended prematurely",
                          "AbortError: This operation was aborted"}

\* C1: however the stream text is split across reads, the attempt processes
\* the same ordered sequence of records, and ends the same way, as when the
\* whole text arrives in one read.
C1_FramingIndependentOfSplits ==
  Finished =>
    LET one == RunStream(body, functionNames)
    IN /\ parsed = one.parsed
       /\ outcome = one.outcome
       /\ paragraph = one.paragraph
       /\ functionCallName = one.functionCallName
       /\ functionCallArgs = one.functionCallArgs

C1_Witness ==
  /\ outcome.kind = "returned"
  /\ carried
  /\ Len(parsed) = 2
  /\ outcome.message.content = Some(<<"H", "e", "l", "l", "o">>)

\* what the records of the stream say, read off the provider's records
JsonOf(r) == JsonOfRecord(r.key, TextDecoderDecode(r.payload))

JsonsOf(recs) == [k \in 1..Len(recs) |-> JsonOf(recs[k])]

RECURSIVE ExpectedContent(_)
ExpectedContent(recs) ==
  IF recs = <<>> THEN <<>>
  ELSE (IF Head(recs).key = "content" THEN TextDecoderDecode(Head(recs).payload) ELSE <<>>)
         \o ExpectedContent(Tail(recs))

RECURSIVE ExpectedName(_)
ExpectedName(recs) ==
  IF recs = <<>> THEN <<>>
  ELSE (IF Head(recs).key \in {"tool", "tool0"}
          THEN BeforeComma(Head(recs).payload) ELSE <<>>)
         \o ExpectedName(Tail(recs))

RECURSIVE ExpectedArgs(_)
ExpectedArgs(recs) ==
  IF recs = <<>> THEN <<>>
  ELSE (IF Head(recs).key \in {"tool", "tool0"}
          THEN AfterComma(Head(recs).payload) ELSE <<>>)
         \o ExpectedArgs(Tail(recs))

\* the attempt ended in the branch that finalises the result
EndedAtDone ==
  \/ outcome.kind = "returned"
  \/ outcome.error \in
       {"Stream error: received function call with unknown name", "SyntaxError",
        "Stream error: received message without content or function_call"}

\* the reads have delivered the marker and the sentinel that close the body
SentinelDelivered == pos >= Len(Flatten(records)) + Len(Marker) + Len(Sentinel)

\* C2: only the record equal to [DONE] ends the stream: when the result is
\* finalised, every data record sent before the sentinel has been processed,
\* also one whose payload contains the characters [DONE].
C2_OnlySentinelEndsStream ==
  EndedAtDone => parsed = JsonsOf(records)

\* C3: the content of the returned message is the concatenation, in arrival
\* order, of the delta.content of every record sent before the sentinel
\* (null when there is none).
C3_ContentIsConcatenationOfDeltas ==
  outcome.kind = "returned" =>
    outcome.message.content =
      (IF ExpectedContent(records) = <<>> THEN Null
       ELSE Some(ExpectedContent(records)))

\* C4: when the result is finalised the accumulated function-call name and
\* arguments are the concatenation, in arrival order, of the name and argument
\* fragments of the tool-call deltas with index 0 or no index.
C4_ToolCallIsConcatenationOfIndex0 ==
  EndedAtDone =>
    /\ functionCallName = ExpectedName(records)
    /\ functionCallArgs = ExpectedArgs(records)

\* C5: a parsed record without choices and with an error field fails the
\* attempt at once: it is the last record processed, no message is returned,
\* and the failure carries the record's error payload with its code.
C5_ErrorRecordFailsAtOnce ==
  \A k \in 1..Len(parsed) :
    (parsed[k].choices = <<>> /\ parsed[k].error # Null) =>
      /\ k = Len(parsed)
      /\ outcome = Threw("Stream error: OpenAI error", parsed[k].error)
      /\ ErrorCodeOf(outcome) = parsed[k].error[1].code

C5_Witness ==
  /\ outcome.error = "Stream error: OpenAI error"
  /\ ErrorCodeOf(outcome) = <<"content_filter">>
  /\ Len(records) = 2
  /\ Len(parsed) = 1
  /\ pos = Len(body)

\* C6: a message is returned only after the terminal sentinel has arrived;
\* content accumulated before it is never returned on its own.
C6_MessageOnlyAfterSentinel ==
  outcome.kind = "returned" => SentinelDelivered

\* a message without text and without a function call
IsEmptyMessage(message) ==
  /\ message.content = Null \/ message.content = Some(<<>>)
  /\ message.function_call = Null

\* C7: callWithRetries never returns a message that has neither text content
\* nor a function call, on any provider path.
C7_ResponseComplete ==
  pc = "returned" => ~IsEmptyMessage(result.message)

AllFailed == \A k \in 1..Len(calls) : ~calls[k].ok

\* C8: on the OpenAI-compatible path with retry bound R there are at most
\* R + 1 attempts, numbered from 0; no attempt follows a successful one, whose
\* message is what the call returns; the exhaustion error is raised when, and
\* only when, all R + 1 attempts have failed; and after a failed attempt the
\* payload holds the fallback model and temperature.
C8_OpenAiAttemptsAndExhaustion ==
  (isOpenAiPayload(aiPayload) /\ pc # "start") =>
    /\ bound = RetriesOf(retriesArg)
    /\ Len(calls) <= bound + 1
    /\ \A k \in 1..Len(calls) : calls[k].index = k - 1
    /\ \A k \in 1..(Len(calls) - 1) : ~calls[k].ok
    /\ pc = "returned" <=> (calls # <<>> /\ calls[Len(calls)].ok)
    /\ pc = "returned" => (result.kind = "returned" /\ result = lastOutcome)
    /\ pc = "threw" =>
         /\ result = ExhaustionError(FailedOpenAI, bound, Null)
         /\ Len(calls) = bound + 1
         /\ AllFailed
    /\ (Len(calls) = bound + 1 /\ AllFailed) =>
         /\ pc \in {"openai", "threw"}
         /\ ~ENABLED OpenAiAttempt
    /\ (calls # <<>> /\ ~calls[Len(calls)].ok) =>
         /\ payload.model = GPT4_0409
         /\ payload.temperature = Some(FallbackTemperature)

C8_Witness ==
  /\ isOpenAiPayload(aiPayload)
  /\ retriesArg = Null
  /\ pc = "threw"
  /\ Len(calls) = DefaultRetries + 1
  /\ result.error = FailedOpenAI

\* C9: on the Anthropic and the Groq path the retry bound given to
\* callWithRetries (5 when omitted) is the number of provider calls made
\* before the exhaustion error is raised.
C9_BoundIsAttemptCount ==
  (pc = "threw" /\ (isAnthropicPayload(aiPayload) \/ isGroqPayload(aiPayload))) =>
    Len(calls) = RetriesOf(retriesArg)

\* C10: on the OpenAI-compatible path attempt 0 is sent with the caller's
\* model and temperature, and every later attempt with the fallback model and
\* temperature 0.8, whatever the errors were.
C10_FallbackAfterEveryFailure ==
  \A k \in 1..Len(calls) :
    calls[k].provider = "openai" =>
      IF calls[k].index = 0
        THEN /\ calls[k].model = aiPayload.model
             /\ calls[k].temperature = aiPayload.temperature
        ELSE /\ calls[k].model = GPT4_0409
             /\ calls[k].temperature = Some(FallbackTemperature)

C10_Witness ==
  /\ aiPayload.model = GPT4O
  /\ aiPayload.temperature = Some(2)
  /\ Len(calls) >= 3
  /\ calls[1].provider = "openai"
  /\ calls[1].model = GPT4O
  /\ calls[3].model = GPT4_0409
  /\ calls[3].temperature = Some(FallbackTemperature)
  /\ lastOutcome.error = "TypeError: fetch failed"

\* every content block of every message is a text block
OnlyTextBlocks(messages) ==
  \A k \in 1..Len(messages) :
    \A j \in 1..Len(messages[k].content.blocks) :
      messages[k].content.blocks[j].type = "text"

\* the same messages with the non-text blocks left out
WithoutNonText(messages) ==
  [k \in 1..Len(messages) |->
     [role |-> messages[k].role,
      content |-> ArrayContent(SelectSeq(messages[k].content.blocks,
                                         LAMBDA b : b.type = "text"))]]

\* C11: on the OpenAI-compatible path a failure with error code
\* content_policy_violation leaves only the text blocks, in their order, in
\* the messages of the payload the next attempt sends; a failure with another
\* code or without code leaves the messages as they are; messages that hold
\* only text blocks stay so for every later attempt.
C11_PolicyViolationStripsNonText ==
  [][pc = "openai" =>
       /\ i' = i + 1 =>
            IF ErrorCodeOf(lastOutcome') = <<"content_policy_violation">>
              THEN /\ payload'.messages = WithoutNonText(payload.messages)
                   /\ OnlyTextBlocks(payload'.messages)
              ELSE payload'.messages = payload.messages
       /\ OnlyTextBlocks(payload.messages) => OnlyTextBlocks(payload'.messages)]_vars

C11_Witness ==
  /\ pc = "openai"
  /\ Len(calls) >= 2
  /\ ErrorCodeOf(lastOutcome) = <<"content_filter">>
  /\ ~OnlyTextBlocks(prepareOpenAIPayload(aiPayload).messages)
  /\ OnlyTextBlocks(payload.messages)
  /\ payload.messages[3].content.blocks = <<>>
  /\ payload.messages[1].content.blocks = <<TextBlock("look")>>

\* the service the precedence table gives to the attempt after a failure at
\* `index` with `errorCode`, the failed attempt having used `service`
ServiceAfterFailure(service, index, errorCode) ==
  IF service = "azure"
       /\ ((index >= 2 /\ errorCode = <<"content_filter">>) \/ index = 3)
    THEN "openai"
    ELSE service

\* C12: on the OpenAI-compatible path every attempt is sent to the service
\* the config names at that time; a failure with code content_filter at an
\* index >= 2 while the service is azure makes the next service direct
\* OpenAI, the same failure at index 0 or 1 leaves it azure, and after every
\* failure the next service is the one the precedence table gives.
C12_ContentFilterSwitchesService ==
  [][(pc = "openai" /\ Len(calls') = Len(calls) + 1) =>
       /\ calls'[Len(calls')].service = ServiceOf(aiConfig)
       /\ i' = i + 1 =>
            LET errorCode == ErrorCodeOf(lastOutcome') IN
              /\ (ServiceOf(aiConfig) = "azure" /\ errorCode = <<"content_filter">>) =>
                    /\ i >= 2 => ServiceOf(aiConfig') = "openai"
                    /\ i \in {0, 1} => ServiceOf(aiConfig') = "azure"
              /\ ServiceOf(aiConfig') =
                    ServiceAfterFailure(ServiceOf(aiConfig), i, errorCode)]_vars

C12_Witness ==
  /\ pc = "openai"
  /\ Len(calls) = 3
  /\ calls[2].service = "azure"
  /\ calls[3].service = "azure"
  /\ ErrorCodeOf(lastOutcome) = <<"content_filter">>
  /\ ServiceOf(aiConfig) = "openai"

\* C13: on the OpenAI-compatible path a failure of the attempt with index 3
\* while the service is azure makes the service direct OpenAI whatever the
\* error, and no attempt with index >= 4 is sent to Azure.
C13_NoAzureAfterThirdRetry ==
  /\ [](\A k \in 1..Len(calls) :
          (calls[k].provider = "openai" /\ calls[k].index >= 4) =>
            calls[k].service # "azure")
  /\ [][(pc = "openai" /\ i = 3 /\ i' = 4) => ServiceOf(aiConfig') = "openai"]_vars

C13_Witness ==
  /\ pc = "openai"
  /\ Len(calls) = 5
  /\ calls[4].index = 3
  /\ calls[4].service = "azure"
  /\ calls[5].service = "openai"
  /\ \A k \in 1..5 : ~calls[k].ok

\* C14: on the OpenAI-compatible path the attempts with index 0..4 are sent
\* with the caller's tool_choice, and the attempt with index 5 is sent with
\* tool_choice "none" when the payload has a tool schema and with the
\* caller's tool_choice when it has none.
C14_ToolChoiceNoneAfterFourthRetry ==
  \A k \in 1..Len(calls) :
    calls[k].provider = "openai" =>
      calls[k].tool_choice =
        (IF calls[k].index >= 5 /\ aiPayload.functions # Null
           THEN Some("none") ELSE aiPayload.function_call)

C14_Witness ==
  /\ Len(calls) = 6
  /\ calls[1].provider = "openai"
  /\ aiPayload.functions # Null
  /\ calls[5].tool_choice = Some("auto")
  /\ calls[6].tool_choice = Some("none")

\* C15: on the Anthropic path an attempt is sent with the Sonnet model when
\* it is the final attempt or an earlier attempt of the call failed with a
\* rate_limit_error, and with the model the caller asked for otherwise.
C15_SonnetOnLastAttemptOrRateLimit ==
  [][(pc = "anthropic" /\ Len(calls') = Len(calls) + 1) =>
       calls'[Len(calls')].model =
         (IF i = bound - 1 \/ rateLimited THEN SONNET ELSE aiPayload.model)]_vars

\* C16: the attempt count the exhaustion error embeds is the number of
\* provider calls the invocation made.
C16_ExhaustionCountsCalls ==
  (pc = "threw" /\ result.attempts # Null) => result.attempts = Some(Len(calls))

\* C17: on the Anthropic and Groq paths, when some failed attempt received a
\* raw provider response, the exhaustion error carries the latest of them in
\* its response field.
C17_ExhaustionCarriesLastResponse ==
  (pc = "threw" /\ result.attempts # Null /\ lastRaw # Null) =>
    result.response = lastRaw

\* the attempts that failed so far
FailedCalls == {k \in 1..Len(calls) : ~calls[k].ok}

\* C18: one delay follows every failed attempt: 250 ms on the
\* OpenAI-compatible path, and 125 * i ms after the failed attempt with index
\* i on the Anthropic and Groq paths.
C18_DelaysBetweenAttempts ==
  /\ pc \in {"openai", "anthropic", "groq"} => Len(slept) = Cardinality(FailedCalls)
  /\ \A k \in 1..Len(slept) :
       slept[k] = (IF calls[k].provider = "openai" THEN 250 ELSE 125 * calls[k].index)

C18_Witness ==
  /\ pc = "threw"
  /\ calls # <<>>
  /\ calls[1].provider = "anthropic"
  /\ slept = <<0, 125, 250, 375, 500>>

\* C19: the array jigAnthropicMessages returns has no two adjacent messages
\* with the same role, in the merging and in the inserting variant.
C19_NormalizedRolesAlternate ==
  jigPc \in {"merged", "inserted"} =>
    \A k \in 1..(Len(anthropicMessages) - 1) :
      anthropicMessages[k].role # anthropicMessages[k + 1].role

C19_Witness ==
  /\ jigPc = "merged"
  /\ Len(givenMessages) = 3
  /\ givenMessages[1].role = "assistant"
  /\ givenMessages[2].role = "assistant"
  /\ givenMessages[3].role = "assistant"
  /\ Len(anthropicMessages) = 3

\* the boundary roles of the array jigAnthropicMessages returns
BoundaryRoles ==
  /\ anthropicMessages # <<>>
  /\ anthropicMessages[1].role = "user"
  /\ anthropicMessages[Len(anthropicMessages)].role # "assistant"

AssistantHi == <<ProviderMessage("assistant", StringContent("hi"))>>

\* C20 as stated: the array returned is non-empty, starts with a user message
\* and does not end with an assistant message, and [{assistant, 'hi'}]
\* gives [{user, '...'}, {assistant, 'hi'}, {user, '...'}].
C20_BoundaryRolesAndExample ==
  jigPc = "merged" =>
    /\ BoundaryRoles
    /\ givenMessages = AssistantHi =>
         anthropicMessages =
           <<ProviderMessage("user", StringContent("...")),
             ProviderMessage("assistant", StringContent("hi")),
             ProviderMessage("user", StringContent("..."))>>

\* C20 amended: the same, the content 'hi' of the assistant message being
\* returned as the one text block [{type: "text", text: 'hi'}].
C20_BoundaryRolesAndExampleAsBlock ==
  jigPc = "merged" =>
    /\ BoundaryRoles
    /\ givenMessages = AssistantHi =>
         anthropicMessages =
           <<ProviderMessage("user", StringContent("...")),
             ProviderMessage("assistant", ArrayContent(<<TextBlock("hi")>>)),
             ProviderMessage("user", StringContent("..."))>>

C20_Witness ==
  /\ jigPc = "merged"
  /\ givenMessages = AssistantHi
  /\ Len(anthropicMessages) = 3

\* C21: no message of the list an Anthropic attempt sends has the role
\* system, wherever system messages stand in the request; the earlier
\* normaliser returns no message with the role system either.
C21_NoSystemMessageSent ==
  /\ \A k \in 1..Len(calls) :
       calls[k].provider = "anthropic" =>
         \A m \in 1..Len(calls[k].messages) : calls[k].messages[m].role # "system"
  /\ jigPc = "inserted" =>
       \A m \in 1..Len(anthropicMessages) : anthropicMessages[m].role # "system"

C21_Witness ==
  /\ Len(calls) >= 2
  /\ calls[2].provider = "anthropic"
  /\ Len(aiPayload.messages) = 3
  /\ aiPayload.messages[2].role = "system"
  /\ Len(calls[2].messages) = 3
  /\ calls[2].messages[2].role = "assistant"

\* C22: a validation error (an inline image of an unsupported type on the
\* Anthropic path; service azure without modelConfigMap or without an endpoint
\* for the model) makes callWithRetries throw that error at once, with no
\* further attempt and no change to the payload or the config.
C22_ValidationErrorFailsAtOnce ==
  [][/\ (pc = "start" /\ isAnthropicPayload(aiPayload)
          /\ InvalidImageMimeType(aiPayload.messages) # "")
         => /\ pc' = "threw"
            /\ result'.error = InvalidImageMimeType(aiPayload.messages)
            /\ calls' = calls
     /\ (pc = "openai" /\ OpenAiLoopContinues(i, bound)
          /\ AzureConfigError(payload, aiConfig) # "")
         => /\ pc' = "threw"
            /\ result'.error = AzureConfigError(payload, aiConfig)
            /\ payload' = payload
            /\ aiConfig' = aiConfig]_vars

\* the part of C22 the code keeps: the unsupported inline image
C22_InvalidImageFailsAtOnce ==
  [][(pc = "start" /\ isAnthropicPayload(aiPayload)
        /\ InvalidImageMimeType(aiPayload.messages) # "")
       => /\ pc' = "threw"
          /\ result'.error = InvalidImageMimeType(aiPayload.messages)
          /\ calls' = calls]_vars

C22_InvalidImageThrown ==
  /\ pc = "threw"
  /\ calls = <<>>
  /\ result.error = InvalidImageMimeType(aiPayload.messages)
  /\ result.error # ""

\* the errors of a stream attempt that are violations of the protocol
C23_ProtocolViolations ==
  {"Stream error: received message without content or function_call",
   "Stream error: received function call with unknown name",
   "SyntaxError",
   "Stream error: ended prematurely"}

\* C23: a protocol violation in a stream attempt (no content and no function
\* call at the sentinel, unknown function name, malformed arguments, premature
\* end) ends only that attempt: while the index of the failed attempt is below
\* the retry bound the remediation has been applied and another attempt can
\* be made, and nothing has been returned; a returned message is the message
\* of a successful attempt.
C23_ViolationEndsOnlyTheAttempt ==
  [][/\ (/\ pc = "openai"
          /\ lastOutcome.kind = "threw"
          /\ lastOutcome.error \in C23_ProtocolViolations
          /\ i <= bound)
         => /\ result.kind = "pending"
            /\ Len(calls') = Len(calls) + 1
            /\ calls'[Len(calls')].index = i
            /\ calls'[Len(calls')].model = GPT4_0409
            /\ calls'[Len(calls')].temperature = Some(FallbackTemperature)
     /\ (pc = "openai" /\ pc' = "returned")
         => /\ lastOutcome'.kind = "returned"
            /\ result' = lastOutcome']_vars

C23_Witness ==
  /\ pc = "openai"
  /\ lastOutcome.error = "Stream error: received function call with unknown name"
  /\ i = bound
  /\ i = 2
  /\ Len(calls) = 2

\* C24: at the sentinel, with a non-empty accumulated name and non-empty
\* accumulated arguments: when a tool schema was sent and the name is not one
\* of its function names, or the arguments are not a JSON text, the attempt
\* throws and returns no message; otherwise the returned message carries the
\* function call with that name and the parsed arguments.
C24_FunctionCallCheckedAtSentinel ==
  (outcome.kind # "pending" /\ functionCallName # <<>> /\ functionCallArgs # <<>>)
    => IF \/ (functionNames # Null /\ functionCallName \notin functionNames[1])
          \/ ~JSONParse(functionCallArgs).ok
         THEN outcome.kind = "threw" /\ outcome.message = NoMessage
         ELSE /\ outcome.kind = "returned"
              /\ outcome.message.function_call =
                   Some([name |-> functionCallName,
                         arguments |-> JSONParse(functionCallArgs).json])

C24_Witness ==
  /\ outcome.kind = "threw"
  /\ functionCallName = <<"g">>
  /\ functionNames = Some({<<"f">>})
  /\ functionCallArgs = <<"{", "}">>
  /\ paragraph = <<"H">>

C24_ReturnedCall ==
  /\ outcome.kind = "returned"
  /\ outcome.message.function_call # Null
  /\ functionNames = Some({<<"f">>, <<"g">>})

\* C25: a second invocation is as if the first had never run, also with the
\* same config object: its first attempt uses the service of the config the
\* caller built, and the model and temperature of the request.
C25_SecondInvocationIndependent ==
  (invocation = 2 /\ calls # <<>> /\ calls[1].provider = "openai")
    => /\ calls[1].service = ServiceOf(givenConfig)
       /\ calls[1].model = givenPayload.model
       /\ calls[1].temperature = givenPayload.temperature

\* what the code keeps of C25: the request's model and temperature
C25_SecondInvocationSameRequest ==
  (invocation = 2 /\ calls # <<>> /\ calls[1].provider = "openai")
    => /\ calls[1].model = givenPayload.model
       /\ calls[1].temperature = givenPayload.temperature

C25_SecondInvocationOnOtherService ==
  /\ invocation = 2
  /\ calls # <<>>
  /\ calls[1].service = "openai"
  /\ ServiceOf(givenConfig) = "azure"

C27_TimeoutErrorCarriesText ==
  [][/\ (outcome.kind = "pending" /\ aborted')
         => /\ outcome'.kind = "threw"
            /\ outcome'.error = "Stream error: aborted due to timeout"
            /\ outcome'.data = Some([paragraph |-> paragraph])
     /\ (aborted' # aborted)
         => abortTimeouts' = StartAbortTimeout(abortTimeouts) - 1
              \/ abortTimeouts' = abortTimeouts - 1]_vars

\* what the code keeps of C27: the attempt fails, and only a timer aborts
C27_TimeoutAbortsAndFails ==
  [][/\ (outcome.kind = "pending" /\ aborted') => outcome'.kind = "threw"
     /\ (aborted' # aborted)
         => abortTimeouts' = StartAbortTimeout(abortTimeouts) - 1
              \/ abortTimeouts' = abortTimeouts - 1]_vars

C27_TimedOutWithText ==
  /\ aborted
  /\ outcome.error = "AbortError: This operation was aborted"
  /\ paragraph = <<"H", "e", "l">>

\* the one shape of a returned message: role assistant, content a non-empty
\* string or null, function_call a {name, arguments} record or null
C28_IsNormalized(message) ==
  /\ message.role = "assistant"
  /\ message.content # Some(<<>>)
  /\ message.content # Undefined
  /\ message.function_call # Undefined

\* C28: on every provider path the returned message has the normalized
\* shape: an absent text is null, never the empty string, and an absent
\* function call is null, never undefined.
C28_ReturnedShapeNormalized ==
  pc = "returned" => C28_IsNormalized(result.message)

\* what the code keeps of C28: the OpenAI, Groq and Google paths
C28_ReturnedShapeNormalizedElsewhere ==
  (pc = "returned" /\ ~isAnthropicPayload(aiPayload))
    => C28_IsNormalized(result.message)

C28_ReturnedElsewhere ==
  /\ pc = "returned"
  /\ isGroqPayload(aiPayload)
  /\ result.message.content = Null
  /\ result.message.function_call # Null

\* C29: with a retry bound of at least 1, a failed first attempt is followed
\* by a further attempt, on the OpenAI-compatible, Anthropic, Groq and Google
\* paths alike.
C29_FailedFirstAttemptRetried ==
  [][(/\ Len(calls) = 1
      /\ ~calls[1].ok
      /\ RetriesOf(retriesArg) >= 1
      /\ invocation' = invocation)
       => Len(calls') = 2]_vars

\* what the code keeps of C29: the OpenAI-compatible and Groq paths, and the
\* Anthropic path when the bound is at least 2
C29_FailedFirstAttemptRetriedInLoops ==
  [][(/\ Len(calls) = 1
      /\ ~calls[1].ok
      /\ RetriesOf(retriesArg) >= 1
      /\ \/ isOpenAiPayload(aiPayload)
         \/ isGroqPayload(aiPayload)
         \/ (isAnthropicPayload(aiPayload) /\ RetriesOf(retriesArg) >= 2))
       => Len(calls') = 2]_vars

C29_SecondAttemptMade ==
  /\ Len(calls) = 2
  /\ ~calls[1].ok
  /\ calls[2].provider = "groq"

\* C30: an invocation ends after finitely many attempts, with the message of
\* a successful attempt or with an error; when every attempt has failed the
\* error is the exhaustion error of the path.
C30_AllFailedGivesExhaustionError ==
  /\ Len(calls) <= RetriesOf(retriesArg) + DefaultRetries + 1
  /\ (pc = "returned")
      => /\ calls # <<>>
         /\ calls[Len(calls)].ok
         /\ result = lastOutcome
         /\ result.kind = "returned"
  /\ (pc = "threw" /\ calls # <<>>)
      => /\ AllFailed
         /\ result.attempts # Null
         /\ result.error \in {FailedOpenAI, FailedAnthropic, FailedGroq}

\* what the code keeps of C30: the three paths with a retry loop
C30_AllFailedGivesExhaustionErrorInLoops ==
  ~isGoogleAIPayload(aiPayload) =>
    /\ Len(calls) <= RetriesOf(retriesArg) + DefaultRetries + 1
    /\ (pc = "returned")
        => /\ calls # <<>>
           /\ calls[Len(calls)].ok
           /\ result = lastOutcome
           /\ result.kind = "returned"
    /\ (pc = "threw" /\ calls # <<>>)
        => /\ AllFailed
           /\ result.attempts # Null
           /\ result.error \in {FailedOpenAI, FailedAnthropic, FailedGroq}

\* the invocation ends
C30_Terminates == <>(pc \in {"returned", "threw"})

C30_ExhaustedInLoop ==
  /\ pc = "threw"
  /\ Len(calls) = 3
  /\ result.error = FailedOpenAI

\* the list the merging normaliser works on: the caller's messages, after a
\* user placeholder when the first message is not a user message
C31_Led ==
  IF givenMessages = <<>> \/ givenMessages[1].role # "user"
    THEN <<ProviderMessage("user", StringContent("..."))>> \o givenMessages
    ELSE givenMessages

\* the positions at which a maximal run of messages of one role begins
C31_RunStarts ==
  {k \in 1..Len(C31_Led) : k = 1 \/ C31_Led[k - 1].role # C31_Led[k].role}

C31_NthStart(n) ==
  CHOOSE k \in C31_RunStarts : Cardinality({j \in C31_RunStarts : j <= k}) = n

C31_RunEnd(start) ==
  CHOOSE e \in start..Len(C31_Led) :
    /\ \A j \in start..e : C31_Led[j].role = C31_Led[start].role
    /\ e = Len(C31_Led) \/ C31_Led[e + 1].role # C31_Led[start].role

\* the blocks of the messages from..to in order, one separator block between
\* each two messages
RECURSIVE C31_RunBlocks(_, _)
C31_RunBlocks(from, to) ==
  IF from = to THEN AsBlocks(C31_Led[from].content)
  ELSE AsBlocks(C31_Led[from].content) \o <<TextBlock("\n\n---\n\n")>>
         \o C31_RunBlocks(from + 1, to)

\* C31: the merging normaliser turns every maximal run of consecutive
\* messages of one role into one message of that role, whose content is the
\* content blocks of the run's messages in their order with exactly one
\* separator block between each two messages: no block is lost, duplicated
\* or reordered.
C31_RunsMergedInOrder ==
  jigPc = "merged" =>
    LET runs == Cardinality(C31_RunStarts) IN
      /\ Len(anthropicMessages) \in {runs, runs + 1}
      /\ \A n \in 1..runs :
           /\ anthropicMessages[n].role = C31_Led[C31_NthStart(n)].role
           /\ AsBlocks(anthropicMessages[n].content) =
                C31_RunBlocks(C31_NthStart(n), C31_RunEnd(C31_NthStart(n)))

C31_Witness ==
  /\ jigPc = "merged"
  /\ Len(givenMessages) = 3
  /\ givenMessages[1].role = "user"
  /\ givenMessages[2].role = "user"
  /\ givenMessages[3].role = "assistant"
  /\ givenMessages[1].content = StringContent("hi")
  /\ givenMessages[2].content = ArrayContent(<<TextBlock("yo")>>)
  /\ Len(anthropicMessages) = 3
  /\ anthropicMessages[1].content =
       ArrayContent(<<TextBlock("hi"), TextBlock("\n\n---\n\n"), TextBlock("yo")>>)

\* the text of a provider message
C32_TextOf(message) ==
  IF message.content.isArray
    THEN {message.content.blocks[b].text : b \in 1..Len(message.content.blocks)}
    ELSE {message.content.text}

\* the content of system message m of the request is in call entry k
C32_Delivered(k, m) ==
  IF calls[k].provider \in {"anthropic", "google"}
    THEN calls[k].system = Some(givenPayload.messages[m].content)
    ELSE \E j \in 1..Len(calls[k].messages) :
           /\ calls[k].messages[j].role = "system"
           /\ givenPayload.messages[m].content \in C32_TextOf(calls[k].messages[j])

C32_SystemMessages ==
  {m \in 1..Len(givenPayload.messages) : givenPayload.messages[m].role = "system"}

\* C32: the content of every system message of the request is delivered to
\* the provider by every call: as the system instruction on the Anthropic
\* and Google paths, as a system-role message on the OpenAI and Groq paths.
C32_SystemContentDelivered ==
  \A k \in 1..Len(calls) : \A m \in C32_SystemMessages : C32_Delivered(k, m)

\* what the code keeps of C32: the last system message, except on Bedrock
C32_LastSystemContentDelivered ==
  \A k \in 1..Len(calls) :
    (C32_SystemMessages # {} /\ calls[k].service # "bedrock")
      => C32_Delivered(k, CHOOSE m \in C32_SystemMessages :
                            \A n \in C32_SystemMessages : n <= m)

C32_SystemDelivered ==
  /\ Len(calls) = 2
  /\ calls[2].provider = "anthropic"
  /\ calls[2].system = Some("be kind")
  /\ Cardinality(C32_SystemMessages) = 2

\* the mime type starts with "image"
C33_StartsWithImage(mimeType) == mimeType \in {"image/png", "image/heic"}

RECURSIVE C33_ImagesOnly(_)
C33_ImagesOnly(files) ==
  IF files = <<>> THEN <<>>
  ELSE (IF C33_StartsWithImage(Head(files).mimeType) THEN <<Head(files)>> ELSE <<>>)
         \o C33_ImagesOnly(Tail(files))

\* the request without its attachments of other types
C33_WithoutOtherFiles(request) ==
  [request EXCEPT !.messages =
     [k \in 1..Len(request.messages) |->
        [request.messages[k] EXCEPT !.files = C33_ImagesOnly(@)]]]

C33_Prepared(request) ==
  IF isAnthropicPayload(request) THEN prepareAnthropicPayload(request)
  ELSE IF isOpenAiPayload(request) THEN prepareOpenAIPayload(request)
  ELSE prepareGoogleAIPayload(request)

C33_BlocksOfFirst(prepared) == prepared.messages[1].content.blocks

\* C33: an attachment whose mime type does not start with "image" is left
\* out of the provider payload on the OpenAI, Anthropic and Google paths and
\* does not make the call fail: the payload is the payload of the request
\* without that attachment, the text of the message first and then one block
\* for each picture, in the order of the pictures.
C33_OtherFilesLeftOut ==
  (pc # "start" /\ ~isGroqPayload(givenPayload)
     /\ \A k \in 1..Len(givenPayload.messages) :
          \A f \in 1..Len(givenPayload.messages[k].files) :
            givenPayload.messages[k].files[f].mimeType # "image/heic")
    => /\ pc # "threw" \/ calls # <<>>
       /\ calls = <<>> =>
            /\ payload = C33_Prepared(C33_WithoutOtherFiles(givenPayload))
            /\ \A k \in 1..Len(givenPayload.messages) :
                 givenPayload.messages[k].role = "user" =>
                   \E j \in 1..Len(payload.messages) :
                     LET blocks == payload.messages[j].content.blocks
                         text == givenPayload.messages[k].content
                         images == C33_ImagesOnly(givenPayload.messages[k].files)
                         shift == IF text = "" THEN 0 ELSE 1
                     IN /\ Len(blocks) = shift + Len(images)
                        /\ shift = 1 => blocks[1] = TextBlock(text)
                        /\ \A f \in 1..Len(images) :
                             /\ blocks[shift + f].type \in {"image", "image_url"}
                             /\ images[f].data[1] \in
                                  {blocks[shift + f].data[d] :
                                     d \in 1..Len(blocks[shift + f].data)}

C33_Witness ==
  /\ pc = "anthropic"
  /\ calls = <<>>
  /\ givenPayload.messages[1].files = <<Photo2, Pdf, Photo>>
  /\ C33_BlocksOfFirst(payload) =
       <<TextBlock("look"), ImageBlock("image/png", "R0lGODlh"),
         ImageBlock("image/png", "iVBORw0KGgo")>>

\* the number of blocks of a sent message that are not text
C34_NonText(message) ==
  IF message.content.isArray
    THEN Cardinality({b \in 1..Len(message.content.blocks) :
                        message.content.blocks[b].type # "text"})
    ELSE 0

\* C34: within one invocation remediations are never undone: after an
\* attempt on direct OpenAI no later attempt uses Azure, after an attempt
\* with tool_choice "none" every later attempt has it, non-text blocks
\* stripped from a message are in no later attempt, and after an attempt
\* with the fallback model (OpenAI or Anthropic path) every later attempt
\* uses it.
C34_RemediationsCumulative ==
  \A k \in 1..Len(calls) : \A l \in (k + 1)..Len(calls) :
    /\ calls[k].service = "openai" => calls[l].service # "azure"
    /\ calls[k].tool_choice = Some("none") => calls[l].tool_choice = Some("none")
    /\ calls[k].provider = "openai" =>
         \A j \in 1..Len(calls[k].messages) :
           C34_NonText(calls[l].messages[j]) <= C34_NonText(calls[k].messages[j])
    /\ (calls[k].provider = "openai" /\ calls[k].model = GPT4_0409)
         => calls[l].model = GPT4_0409
    /\ (calls[k].provider = "anthropic" /\ calls[k].model = SONNET)
         => calls[l].model = SONNET

C34_Witness ==
  /\ Len(calls) = 6
  /\ calls[1].service = "azure"
  /\ calls[1].model = GPT4O
  /\ calls[2].model = GPT4_0409
  /\ C34_NonText(calls[1].messages[1]) = 1
  /\ C34_NonText(calls[3].messages[1]) = 0
  /\ calls[6].service = "openai"
  /\ calls[6].tool_choice = Some("none")
  /\ calls[6].model = GPT4_0409
  /\ C34_NonText(calls[6].messages[1]) = 0

C34_SonnetKept ==
  /\ Len(calls) = 4
  /\ calls[4].provider = "anthropic"
  /\ calls[1].model = HAIKU
  /\ calls[2].model = SONNET
  /\ calls[3].model = SONNET
  /\ lastOutcome.kind = "threw"

\* C35: when a stream attempt has ended, in whichever way, no per-chunk
\* timeout of that stream is still pending, also when the read itself
\* rejected with a transport error.
C35_NoTimeoutPendingAtEnd == outcome.kind # "pending" => abortTimeouts = 0

\* the attempts that ended otherwise than by a rejected read have no timer left
C35_NoTimeoutPendingUnlessReadRejected ==
  (outcome.kind # "pending" /\ outcome.error # "TypeError: terminated")
    => abortTimeouts = 0

C35_ReadRejectedAfterText ==
  /\ outcome.error = "TypeError: terminated"
  /\ paragraph = <<"H", "e", "l">>
  /\ abortTimeouts = 1
  /\ ~aborted

\* C36: the timeout is set before each read and cleared when the read has
\* resolved: between two reads no timeout is pending (each read has its own),
\* at most one timeout is pending at any time, the controller is never
\* aborted while the stream is being read, and an attempt whose reads all
\* resolved is never aborted.
C36_TimeoutPerRead ==
  /\ abortTimeouts \in {0, 1}
  /\ outcome.kind = "pending" => (abortTimeouts = 0 /\ ~aborted)
  /\ aborted => outcome.error \in {"AbortError: This operation was aborted",
                                   "TypeError: terminated"}

C36_Witness ==
  /\ outcome.kind = "returned"
  /\ carried
  /\ Len(parsed) = 2
  /\ pos = Len(body)
  /\ abortTimeouts = 0
  /\ ~aborted

\* the records of the stream other than those without choices and error
C37_OtherRecords == SelectSeq(records, LAMBDA r : r # NoChoices)

\* C37: a record with no choices and no error field does not fail the
\* attempt and leaves text, function name and arguments as they were,
\* wherever it stands in the stream: the attempt accumulates the same and
\* ends the same as on the stream without these records (so it fails after
\* them only as that stream fails, for want of content or function call),
\* and in every state of the read loop processing such a record changes
\* nothing but the list of parsed records.
C37_NoChoicesRecordSkipped ==
  /\ Finished =>
       LET one == RunStream(BodyOf(C37_OtherRecords), functionNames)
       IN /\ outcome = one.outcome
          /\ paragraph = one.paragraph
          /\ functionCallName = one.functionCallName
          /\ functionCallArgs = one.functionCallArgs
  /\ outcome.kind = "pending" =>
       ProcessJsonString(StreamState, <<"{", "id", Q, Q, "}", NL>>, functionNames)
         = [StreamState EXCEPT !.parsed = Append(@, EmptyObject)]

C37_Witness ==
  /\ records = <<NoChoices, ContentHel>>
  /\ carried
  /\ Len(parsed) = 2
  /\ outcome.kind = "returned"
  /\ outcome.message.content = Some(<<"H", "e", "l">>)

C37_LaterRecordSkipped ==
  /\ records = <<ContentHel, NoChoices>>
  /\ Len(parsed) = 2
  /\ outcome.kind = "returned"

C37_OnlyNoChoicesFails ==
  /\ records = <<NoChoices, NoChoices>>
  /\ Len(parsed) = 2
  /\ outcome.kind = "threw"
  /\ paragraph = <<>>

\* C38: jigAnthropicMessages does not change the messages it is given, so
\* all attempts of one Anthropic call send the same message sequence.
C38_SameMessagesOnEveryAttempt ==
  \A k \in 1..Len(calls) : \A l \in (k + 1)..Len(calls) :
    calls[k].provider = "anthropic" => calls[l].messages = calls[k].messages

\* C38 on the function alone: the caller's array is as it was
C38_InputUnchanged == jigPc = "merged" => inputMessages = givenMessages

\* the sequences sent have the same roles on every attempt
C38_SameRolesOnEveryAttempt ==
  \A k \in 1..Len(calls) : \A l \in (k + 1)..Len(calls) :
    calls[k].provider = "anthropic" =>
      /\ Len(calls[l].messages) = Len(calls[k].messages)
      /\ \A j \in 1..Len(calls[k].messages) :
           calls[l].messages[j].role = calls[k].messages[j].role

C38_MergedAgain ==
  /\ Len(calls) = 2
  /\ calls[1].provider = "anthropic"
  /\ Len(calls[1].messages) = 1
  /\ Len(calls[1].messages[1].content.blocks) = 3
  /\ Len(calls[2].messages[1].content.blocks) = 5

\* the returned message carries a function call with the accumulated name
C39_CallDelivered ==
  /\ outcome.message.function_call # Null
  /\ outcome.message.function_call[1].name = functionCallName

\* C39: a streamed function call is never silently dropped: when the
\* accumulated name is not empty at the sentinel, the attempt fails or the
\* returned message carries a function call with that name.
C39_FunctionCallNeverDropped ==
  (outcome.kind = "returned" /\ functionCallName # <<>>) => C39_CallDelivered

\* the same when the accumulated arguments are not empty either
C39_CallWithArgumentsNeverDropped ==
  (outcome.kind = "returned" /\ functionCallName # <<>> /\ functionCallArgs # <<>>)
    => C39_CallDelivered

C39_DroppedCall ==
  /\ outcome.kind = "returned"
  /\ functionCallName = <<"f">>
  /\ functionCallArgs = <<>>
  /\ functionNames = Some({<<"f">>})
  /\ outcome.message.content = Some(<<"H">>)
  /\ outcome.message.function_call = Null

\* C40: a character whose two bytes arrive in different reads gives the
\* same text, and its record is parsed the same, as when the whole stream
\* arrives in one read.
C40_SplitCharacterSameText ==
  Finished =>
    LET one == RunStream(body, functionNames)
    IN /\ paragraph = one.paragraph
       /\ parsed = one.parsed
       /\ outcome = one.outcome

\* an attempt whose text has no replacement character has the text of the
\* single read
C40_UnsplitCharacterSameText ==
  (Finished /\ \A k \in 1..Len(paragraph) : paragraph[k] # ReplacementChar) =>
    paragraph = RunStream(body, functionNames).paragraph

C40_SplitCharacter ==
  /\ records = <<ContentEAcute>>
  /\ outcome.kind = "returned"
  /\ carried
  /\ paragraph = <<ReplacementChar, ReplacementChar>>
  /\ RunStream(body, functionNames).paragraph = <<EAcute>>

C40_WholeCharacter ==
  /\ records = <<ContentEAcute>>
  /\ outcome.kind = "returned"
  /\ carried
  /\ paragraph = <<EAcute>>

====
